---- MODULE Spec2Model ----
(***************************************************************************)
(* The batched, transactional object-id allocator of daos-rust-bind        *)
(* (src/src/daos_oid_allocator.rs) over the persisted OID_BATCH_CURSOR     *)
(* record of a container.                                                  *)
(*                                                                         *)
(* Every caller of allocate() is a process bound to one allocator          *)
(* instance; several callers may share an instance.  The sections of       *)
(* allocate() that run under the instance's range mutex contain no await   *)
(* and no storage call, so each of them is one atomic action; every        *)
(* storage call (transaction open, fetch, update, commit) is one action    *)
(* of its own, and the actions of different callers interleave freely.     *)
(*                                                                         *)
(* The storage engine is the collaborator behind daos_tx_open,             *)
(* daos_obj_fetch, daos_obj_update and daos_tx_commit: conditional writes  *)
(* are enforced, a transaction's commit is refused when the cursor key     *)
(* was written after the transaction read it, and every call may also      *)
(* fail with a nonzero native result code.                                 *)
(***************************************************************************)
EXTENDS Integers, Sequences, FiniteSets, TLC

VARIABLES
    params,   \* the build's OID_BATCH_SIZE / OID_BATCH_CURSOR_START and the call budgets
    cursor,   \* the persisted OID_BATCH_CURSOR record of the container
    range,    \* range[i]: the Range<u128> behind instance i's mutex
    pc,       \* pc[p]: where caller p stands inside allocate()
    loc,      \* loc[p]: the locals of caller p's allocate_oid_batch()
    txn,      \* txn[p]: the transactions opened by caller p's current call
    ops,      \* ops[p]: the storage calls issued by caller p's current call
    ncalls,   \* allocate() calls entered so far
    faults,   \* native failures injected so far
    log,      \* log[i]: the results instance i's allocate() returned, in order of return
    batches,  \* the ranges returned by allocate_oid_batch(), in order of return
    events,   \* events[e]: the DaosEvent of asynchronous operation e and the task awaiting it
    queue,    \* the DaosEventQueue: its handle, its poller thread and its teardown
    awaited,  \* an operation's `match rx.await`: what was received and what is returned
    twin,     \* one allocate() call of each allocator variant on the same inputs
    once,     \* the INIT_DAOS cells, the threads inside DaosPool::new, the daos_init calls
    conn,     \* a DaosPool and a DaosContainer: their handles and the native calls made
    issue     \* one asynchronous operation: the steps it has taken on its DaosEvent

vars == <<params, cursor, range, pc, loc, txn, ops, ncalls, faults, log, batches,
          events, queue, awaited, twin, once, conn, issue>>

(* The state of the allocator and the state of the event layer.            *)
allocVars == <<params, cursor, range, pc, loc, txn, ops, ncalls, faults, log, batches>>

eventVars == <<events, queue, awaited>>

(* The state of the rest of the library.                                   *)
libVars == <<twin, once, conn, issue>>

----------------------------------------------------------------------------
(* Program constants.                                                      *)

OID_BATCH_SIZE == 1024
OID_BATCH_CURSOR_START == 1024
U8_BITS == 8

(* Bounds of the model.  The counter is a u128 split into two u64 halves   *)
(* with OID_FMT_INTR_BITS reserved bits on top; the model keeps the same   *)
(* layout at a width TLC can count in.                                     *)

HalfBits == 12
IntrBits == 4
SmallBatch == 2
SmallStart == 2
NumInsts == 2
NumProcs == 3
MaxCalls == 3
MaxFaults == 1
ConcreteCalls == 1026
NumEvents == 2
MaxErr == 1
MaxDrops == 2
MaxCode == 1
MaxQueues == 2
MaxOutcomes == 7
NumThreads == 2
MaxPools == 3
MaxConnCalls == 4

RECURSIVE Pow2(_)
Pow2(n) == IF n = 0 THEN 1 ELSE 2 * Pow2(n - 1)

OidBits == 2 * HalfBits
OidModulus == Pow2(OidBits)
HalfModulus == Pow2(HalfBits)
NBytes == (OidBits + U8_BITS - 1) \div U8_BITS
ByteModulus == Pow2(U8_BITS)

Insts == 1..NumInsts
Procs == 1..NumProcs

(* The allocator instance caller p uses.                                   *)
InstOf(p) == ((p - 1) % NumInsts) + 1

----------------------------------------------------------------------------
(* Pure functions of the allocator.                                        *)

(* The weight of the k-th byte of a little-endian value.                   *)
ByteWeight == [k \in 1..NBytes |-> Pow2(U8_BITS * (k - 1))]

(* A bug to_le_bytes could have: to_be_bytes is called instead.            *)
to_be_bytes(v) == [k \in 1..NBytes |-> (v \div ByteWeight[NBytes + 1 - k]) % ByteModulus]

(* u128::to_le_bytes                                                       *)
to_le_bytes(v) == [k \in 1..NBytes |-> (v \div ByteWeight[k]) % ByteModulus]

RECURSIVE SumBytes(_, _)
SumBytes(b, k) ==
    IF k > Len(b) THEN 0 ELSE b[k] + ByteModulus * SumBytes(b, k + 1)

(* u128::from_le_bytes                                                     *)
from_le_bytes(b) == SumBytes(b, 1)

(* u128 addition as the release build performs it                          *)
WrapAdd(a, b) == (a + b) % OidModulus

(* The first value with a reserved bit set: 1 << (128 - OID_FMT_INTR_BITS). *)
Threshold == Pow2(OidBits - IntrBits)

(* A bug ReservedBitsSet could have: the shift is by the whole width.      *)
ReservedBitsShiftAll(v) == (v \div OidModulus) # 0

(* (range.start >> (128 - OID_FMT_INTR_BITS)) != 0                         *)
ReservedBitsSet(v) == (v \div Threshold) # 0

(* DaosObjectId { hi: (start >> 64) as u64, lo: (start & 0xFFFF_FFFF_FFFF_FFFF) as u64 } *)
OidHi(v) == (v \div HalfModulus) % HalfModulus

(* A bug OidLo could have: the mask is 0xFF, one byte only.                *)
OidLoNarrow(v) == v % ByteModulus

OidLo(v) == v % HalfModulus

EmptyRange == [start |-> 0, end |-> 0]

(* first and ins remember how the first fetch and the bootstrap insert of  *)
(* the call ended; guard is the MutexGuard `range` the call took at its    *)
(* entry.                                                                  *)
NoLocals ==
    [first |-> "none", ins |-> "none", range_start |-> 0, new_range |-> EmptyRange,
     guard |-> "none"]

----------------------------------------------------------------------------
(* Results.                                                                *)

(* What allocate() returns to caller p, with what the call did: the       *)
(* storage calls it issued, the range.start it looked at (from) and the    *)
(* batch it claimed.                                                       *)
OkResult(p, v, path) ==
    [proc |-> p, inst |-> InstOf(p), ok |-> TRUE, hi |-> OidHi(v), lo |-> OidLo(v),
     cause |-> "", kind |-> "", path |-> path, ops |-> ops[p], from |-> v,
     first |-> loc[p].first, ins |-> loc[p].ins, claimed |-> loc[p].new_range]

ErrResult(p, cause, kind, path, issued, v) ==
    [proc |-> p, inst |-> InstOf(p), ok |-> FALSE, hi |-> 0, lo |-> 0,
     cause |-> cause, kind |-> kind, path |-> path, ops |-> issued, from |-> v,
     first |-> loc[p].first, ins |-> loc[p].ins, claimed |-> loc[p].new_range]

(* allocate() of caller p returns r.                                       *)
Returned(p, r) == [log EXCEPT ![InstOf(p)] = Append(@, r)]

(* Err(Error::new(ErrorKind::Other, "No more OIDs available"))             *)
ExhaustedKind == "Other"

(* The kind of the error a storage call returns on a nonzero native code.  *)
NativeFailureKind == "Other"

(* The tail of allocate(): check the reserved bits of range.start, then    *)
(* hand it out and advance the range.                                      *)
TakeResult(p, r, path) ==
    IF ReservedBitsSet(r.start)
    THEN ErrResult(p, "exhausted", ExhaustedKind, path, ops[p], r.start)
    ELSE OkResult(p, r.start, path)

(* A bug TakeRange could have: range.start += 1 is missing.                 *)
TakeRangeNoAdvance(r) == r

TakeRange(r) ==
    IF ReservedBitsSet(r.start) THEN r ELSE [r EXCEPT !.start = r.start + 1]

----------------------------------------------------------------------------
(* The storage engine behind the native calls.                             *)

NoCursor == [present |-> FALSE, data |-> <<>>, ver |-> 0]

(* A committed write of the cursor key.                                    *)
Written(c, data) == [present |-> TRUE, data |-> data, ver |-> c.ver + 1]

(* daos_tx_open: a fresh transaction that has read and written nothing.    *)
NewTxn == [st |-> "open", held |-> TRUE, rver |-> -1, wr |-> <<>>]

(* A bug FetchIn could have: the fetch is issued with DaosTxn::txn_none(), *)
(* so the transaction does not depend on what was read.                    *)
FetchOutside(t, c) == t

(* fetch_async(&txn, ..): the fetch is issued inside transaction t, which  *)
(* from then on depends on the version of the cursor key it read.          *)
FetchIn(t, c) == [t EXCEPT !.rver = c.ver]

(* The engine commits a transaction only when the cursor key exists (the   *)
(* update is DAOS_COND_DKEY_UPDATE) and was not written since the          *)
(* transaction fetched it; a transaction that fetched nothing depends on   *)
(* no version.                                                             *)
CommitAllowed(t, c) == c.present /\ (t.rver = -1 \/ t.rver = c.ver)

(* The transaction a caller's fetch, update and commit are issued on: the  *)
(* latest one it opened.                                                   *)
CurTxn(p) == txn[p][Len(txn[p])]

SetCurTxn(p, t) == [txn EXCEPT ![p] = [@ EXCEPT ![Len(@)] = t]]

(* drop(txn): DaosTxn has no Drop, the native transaction stays as it is.  *)
DropCurTxn(p) == SetCurTxn(p, [CurTxn(p) EXCEPT !.held = FALSE])

Issue(p, op) == [ops EXCEPT ![p] = Append(@, op)]

----------------------------------------------------------------------------
(* allocate()                                                              *)

(* What allocate_oid_batch() adds to the claimed start to get the end of   *)
(* the batch and the next cursor value.                                    *)
(* A bug BatchEnd could have: the batch size is added twice.               *)
BatchEndTwice(range_start) == WrapAdd(WrapAdd(range_start, params.batch), params.batch)

BatchEnd(range_start) == WrapAdd(range_start, params.batch)

(* A bug FailReturn could have: the range fetched so far is installed on   *)
(* the way out.                                                            *)
FailReturnInstalls(p, cause, op) ==
    /\ pc' = [pc EXCEPT ![p] = "idle"]
    /\ log' = Returned(p, ErrResult(p, cause, NativeFailureKind, "refill", Append(ops[p], op), 0))
    /\ ops' = [ops EXCEPT ![p] = <<>>]
    /\ loc' = [loc EXCEPT ![p] = NoLocals]
    /\ range' = [range EXCEPT ![InstOf(p)] =
                    [start |-> loc[p].range_start, end |-> BatchEnd(loc[p].range_start)]]
    /\ UNCHANGED <<eventVars, libVars, params, cursor, ncalls, batches>>

(* `?` on a failed storage call op: allocate_oid_batch() and allocate()    *)
(* return the error; the range is not touched.                             *)
FailReturn(p, cause, op) ==
    /\ pc' = [pc EXCEPT ![p] = "idle"]
    /\ log' = Returned(p, ErrResult(p, cause, NativeFailureKind, "refill", Append(ops[p], op), 0))
    /\ ops' = [ops EXCEPT ![p] = <<>>]
    /\ loc' = [loc EXCEPT ![p] = NoLocals]
    /\ UNCHANGED <<eventVars, libVars, params, cursor, range, ncalls, batches>>

(* self.range.lock() of instance i returns: no call holds its guard.       *)
CanLock(i) == \A q \in Procs : InstOf(q) = i => loc[q].guard # "held"

(* lock; start < end; check, take, unlock.                                 *)
AllocateFast(p) ==
    LET i == InstOf(p) IN
    /\ pc[p] = "idle"
    /\ ncalls < params.maxcalls
    /\ CanLock(i)
    /\ range[i].start < range[i].end
    /\ log' = Returned(p, TakeResult(p, range[i], "fast"))
    /\ range' = [range EXCEPT ![i] = TakeRange(range[i])]
    /\ ncalls' = ncalls + 1
    /\ UNCHANGED <<eventVars, libVars, params, cursor, pc, loc, txn, ops, faults, batches>>

(* A bug AllocateSlow could have: the batch claim is entered whatever the  *)
(* range holds.                                                            *)
AllocateSlowAlways(p) ==
    /\ pc[p] = "idle"
    /\ ncalls < params.maxcalls
    /\ CanLock(InstOf(p))
    /\ pc' = [pc EXCEPT ![p] = "open"]
    /\ loc' = [loc EXCEPT ![p] = [@ EXCEPT !.guard = "dropped"]]
    /\ txn' = [txn EXCEPT ![p] = <<>>]
    /\ ncalls' = ncalls + 1
    /\ UNCHANGED <<eventVars, libVars, params, cursor, range, ops, faults, log, batches>>

(* A bug AllocateSlow could have: the guard is kept across the batch       *)
(* claim.                                                                  *)
AllocateSlowKeepsGuard(p) ==
    LET i == InstOf(p) IN
    /\ pc[p] = "idle"
    /\ ncalls < params.maxcalls
    /\ CanLock(i)
    /\ range[i].start >= range[i].end
    /\ pc' = [pc EXCEPT ![p] = "open"]
    /\ loc' = [loc EXCEPT ![p] = [@ EXCEPT !.guard = "held"]]
    /\ txn' = [txn EXCEPT ![p] = <<>>]
    /\ ncalls' = ncalls + 1
    /\ UNCHANGED <<eventVars, libVars, params, cursor, range, ops, faults, log, batches>>

(* lock; start >= end; drop(range).                                        *)
AllocateSlow(p) ==
    LET i == InstOf(p) IN
    /\ pc[p] = "idle"
    /\ ncalls < params.maxcalls
    /\ CanLock(i)
    /\ range[i].start >= range[i].end
    /\ pc' = [pc EXCEPT ![p] = "open"]
    /\ loc' = [loc EXCEPT ![p] = [@ EXCEPT !.guard = "dropped"]]
    /\ txn' = [txn EXCEPT ![p] = <<>>]
    /\ ncalls' = ncalls + 1
    /\ UNCHANGED <<eventVars, libVars, params, cursor, range, ops, faults, log, batches>>

(* let txn = DaosTxn::open_async(..).await?                                *)
TxnOpenOk(p) ==
    /\ pc[p] = "open"
    /\ pc' = [pc EXCEPT ![p] = "fetch"]
    /\ txn' = [txn EXCEPT ![p] = Append(@, NewTxn)]
    /\ ops' = Issue(p, "open")
    /\ UNCHANGED <<eventVars, libVars, params, cursor, range, loc, ncalls, faults, log, batches>>

TxnOpenFault(p) ==
    /\ pc[p] = "open"
    /\ faults < MaxFaults
    /\ FailReturn(p, "open", "open")
    /\ faults' = faults + 1
    /\ UNCHANGED txn

(* The first fetch_async(&txn, DAOS_COND_DKEY_FETCH, ..) finds the key.     *)
FetchOk(p) ==
    /\ pc[p] = "fetch"
    /\ cursor.present
    /\ pc' = [pc EXCEPT ![p] = "update"]
    /\ loc' = [loc EXCEPT ![p] = [@ EXCEPT !.first = "ok",
                                           !.range_start = from_le_bytes(cursor.data)]]
    /\ txn' = SetCurTxn(p, FetchIn(CurTxn(p), cursor))
    /\ ops' = Issue(p, "fetch")
    /\ UNCHANGED <<eventVars, libVars, params, cursor, range, ncalls, faults, log, batches>>

(* The first fetch fails because the key does not exist.                   *)
FetchNotFound(p) ==
    /\ pc[p] = "fetch"
    /\ ~cursor.present
    /\ pc' = [pc EXCEPT ![p] = "insert"]
    /\ loc' = [loc EXCEPT ![p] = [@ EXCEPT !.first = "absent"]]
    /\ ops' = Issue(p, "fetch")
    /\ UNCHANGED <<eventVars, libVars, params, cursor, range, txn, ncalls, faults, log, batches>>

(* The first fetch fails with a native error: res.is_err() all the same.   *)
FetchFault(p) ==
    /\ pc[p] = "fetch"
    /\ faults < MaxFaults
    /\ pc' = [pc EXCEPT ![p] = "insert"]
    /\ loc' = [loc EXCEPT ![p] = [@ EXCEPT !.first = "fault"]]
    /\ ops' = Issue(p, "fetch")
    /\ faults' = faults + 1
    /\ UNCHANGED <<eventVars, libVars, params, cursor, range, txn, ncalls, log, batches>>

(* The value the bootstrap insert writes and the range it returns.         *)
(* A bug InitialCursor could have: OID_BATCH_SIZE is not added.            *)
InitialCursorIsStart == params.start

InitialCursor == params.start + params.batch

InitialRange == [start |-> params.start, end |-> params.start + params.batch]

(* A bug InsertOk could have: the write is issued without                  *)
(* DAOS_COND_DKEY_INSERT and succeeds whether or not the key exists.       *)
InsertUnconditional(p) ==
    /\ pc[p] = "insert"
    /\ cursor' = Written(cursor, to_le_bytes(InitialCursor))
    /\ pc' = [pc EXCEPT ![p] = "install"]
    /\ loc' = [loc EXCEPT ![p] = [@ EXCEPT !.ins = "ok", !.new_range = InitialRange]]
    /\ txn' = DropCurTxn(p)
    /\ ops' = Issue(p, "insert")
    /\ batches' = Append(batches, [proc |-> p, start |-> InitialRange.start,
                                   end |-> InitialRange.end, via |-> "insert"])
    /\ UNCHANGED <<eventVars, libVars, params, range, ncalls, faults, log>>

(* update_async(&DaosTxn::txn_none(), DAOS_COND_DKEY_INSERT, ..) succeeds:  *)
(* return Ok(Range { OID_BATCH_CURSOR_START, .. + OID_BATCH_SIZE }).        *)
InsertOk(p) ==
    /\ pc[p] = "insert"
    /\ ~cursor.present
    /\ cursor' = Written(cursor, to_le_bytes(InitialCursor))
    /\ pc' = [pc EXCEPT ![p] = "install"]
    /\ loc' = [loc EXCEPT ![p] = [@ EXCEPT !.ins = "ok", !.new_range = InitialRange]]
    /\ txn' = DropCurTxn(p)
    /\ ops' = Issue(p, "insert")
    /\ batches' = Append(batches, [proc |-> p, start |-> InitialRange.start,
                                   end |-> InitialRange.end, via |-> "insert"])
    /\ UNCHANGED <<eventVars, libVars, params, range, ncalls, faults, log>>

(* The insert is refused because the key exists: query_again, drop(txn).   *)
InsertExists(p) ==
    /\ pc[p] = "insert"
    /\ cursor.present
    /\ pc' = [pc EXCEPT ![p] = "reopen"]
    /\ loc' = [loc EXCEPT ![p] = [@ EXCEPT !.ins = "exists"]]
    /\ txn' = DropCurTxn(p)
    /\ ops' = Issue(p, "insert")
    /\ UNCHANGED <<eventVars, libVars, params, cursor, range, ncalls, faults, log, batches>>

(* The insert fails with a native error: query_again, drop(txn).           *)
InsertFault(p) ==
    /\ pc[p] = "insert"
    /\ faults < MaxFaults
    /\ pc' = [pc EXCEPT ![p] = "reopen"]
    /\ loc' = [loc EXCEPT ![p] = [@ EXCEPT !.ins = "fault"]]
    /\ txn' = DropCurTxn(p)
    /\ ops' = Issue(p, "insert")
    /\ faults' = faults + 1
    /\ UNCHANGED <<eventVars, libVars, params, cursor, range, ncalls, log, batches>>

(* let txn = DaosTxn::open_async(..).await? on the query_again path.        *)
TxnReopenOk(p) ==
    /\ pc[p] = "reopen"
    /\ pc' = [pc EXCEPT ![p] = "refetch"]
    /\ txn' = [txn EXCEPT ![p] = Append(@, NewTxn)]
    /\ ops' = Issue(p, "open")
    /\ UNCHANGED <<eventVars, libVars, params, cursor, range, loc, ncalls, faults, log, batches>>

TxnReopenFault(p) ==
    /\ pc[p] = "reopen"
    /\ faults < MaxFaults
    /\ FailReturn(p, "open", "open")
    /\ faults' = faults + 1
    /\ UNCHANGED txn

(* The second fetch_async(txn.as_ref(), ..).await? finds the key.           *)
RefetchOk(p) ==
    /\ pc[p] = "refetch"
    /\ cursor.present
    /\ pc' = [pc EXCEPT ![p] = "update"]
    /\ loc' = [loc EXCEPT ![p] = [@ EXCEPT !.range_start = from_le_bytes(cursor.data)]]
    /\ txn' = SetCurTxn(p, FetchIn(CurTxn(p), cursor))
    /\ ops' = Issue(p, "fetch")
    /\ UNCHANGED <<eventVars, libVars, params, cursor, range, ncalls, faults, log, batches>>

(* A bug RefetchNotFound could have: the bootstrap is tried again.         *)
RefetchNotFoundRetries(p) ==
    /\ pc[p] = "refetch"
    /\ ~cursor.present
    /\ pc' = [pc EXCEPT ![p] = "insert"]
    /\ ops' = Issue(p, "fetch")
    /\ UNCHANGED <<eventVars, libVars, params, cursor, range, loc, txn, ncalls, faults, log,
                   batches>>

(* The second fetch fails because the key still does not exist.            *)
RefetchNotFound(p) ==
    /\ pc[p] = "refetch"
    /\ ~cursor.present
    /\ FailReturn(p, "fetch", "fetch")
    /\ UNCHANGED <<txn, faults>>

RefetchFault(p) ==
    /\ pc[p] = "refetch"
    /\ faults < MaxFaults
    /\ FailReturn(p, "fetch", "fetch")
    /\ faults' = faults + 1
    /\ UNCHANGED txn

(* A bug UpdateOk could have: the update is issued on the transaction the  *)
(* call opened first, also when it was abandoned.                          *)
UpdateOnFirstTxn(p) ==
    /\ pc[p] = "update"
    /\ pc' = [pc EXCEPT ![p] = "commit"]
    /\ txn' = [txn EXCEPT ![p] = [@ EXCEPT ![1] =
                  [@ EXCEPT !.wr = to_le_bytes(BatchEnd(loc[p].range_start))]]]
    /\ ops' = Issue(p, "update")
    /\ UNCHANGED <<eventVars, libVars, params, cursor, range, loc, ncalls, faults, log, batches>>

(* update_async(txn.as_ref(), DAOS_COND_DKEY_UPDATE, ..,                    *)
(*              (range_start + OID_BATCH_SIZE).to_le_bytes()).await?        *)
UpdateOk(p) ==
    /\ pc[p] = "update"
    /\ pc' = [pc EXCEPT ![p] = "commit"]
    /\ txn' = SetCurTxn(p, [CurTxn(p) EXCEPT !.wr = to_le_bytes(BatchEnd(loc[p].range_start))])
    /\ ops' = Issue(p, "update")
    /\ UNCHANGED <<eventVars, libVars, params, cursor, range, loc, ncalls, faults, log, batches>>

UpdateFault(p) ==
    /\ pc[p] = "update"
    /\ faults < MaxFaults
    /\ FailReturn(p, "update", "update")
    /\ faults' = faults + 1
    /\ UNCHANGED txn

(* txn.commit_async().await? succeeds: Ok(Range { range_start, .. }).       *)
CommitOk(p) ==
    /\ pc[p] = "commit"
    /\ CommitAllowed(CurTxn(p), cursor)
    /\ cursor' = Written(cursor, CurTxn(p).wr)
    /\ pc' = [pc EXCEPT ![p] = "install"]
    /\ loc' = [loc EXCEPT ![p] = [@ EXCEPT !.new_range =
                  [start |-> loc[p].range_start, end |-> BatchEnd(loc[p].range_start)]]]
    /\ txn' = SetCurTxn(p, [CurTxn(p) EXCEPT !.st = "committed"])
    /\ ops' = Issue(p, "commit")
    /\ batches' = Append(batches, [proc |-> p, start |-> loc[p].range_start,
                                   end |-> BatchEnd(loc[p].range_start), via |-> "commit"])
    /\ UNCHANGED <<eventVars, libVars, params, range, ncalls, faults, log>>

(* A bug CommitConflict could have: the claim is retried with a fresh       *)
(* transaction instead of being returned.                                   *)
CommitConflictRetries(p) ==
    /\ pc[p] = "commit"
    /\ ~CommitAllowed(CurTxn(p), cursor)
    /\ pc' = [pc EXCEPT ![p] = "reopen"]
    /\ ops' = Issue(p, "commit")
    /\ UNCHANGED <<eventVars, libVars, params, cursor, range, loc, txn, ncalls, faults, log, batches>>

(* The engine refuses the commit: the cursor was written after the fetch.  *)
CommitConflict(p) ==
    /\ pc[p] = "commit"
    /\ ~CommitAllowed(CurTxn(p), cursor)
    /\ FailReturn(p, "commit", "commit")
    /\ UNCHANGED <<txn, faults>>

CommitFault(p) ==
    /\ pc[p] = "commit"
    /\ faults < MaxFaults
    /\ FailReturn(p, "commit", "commit")
    /\ faults' = faults + 1
    /\ UNCHANGED txn

(* A bug Install could have: range.start += 1 is missing after the        *)
(* refill.                                                                 *)
InstallKeepsStart(p) ==
    LET i == InstOf(p) IN
    /\ pc[p] = "install"
    /\ CanLock(i)
    /\ log' = Returned(p, TakeResult(p, loc[p].new_range, "refill"))
    /\ range' = [range EXCEPT ![i] = loc[p].new_range]
    /\ pc' = [pc EXCEPT ![p] = "idle"]
    /\ ops' = [ops EXCEPT ![p] = <<>>]
    /\ loc' = [loc EXCEPT ![p] = NoLocals]
    /\ UNCHANGED <<eventVars, libVars, params, cursor, txn, ncalls, faults, batches>>

(* lock; *range = new_range; check, take, unlock.                          *)
Install(p) ==
    LET i == InstOf(p) IN
    /\ pc[p] = "install"
    /\ CanLock(i)
    /\ log' = Returned(p, TakeResult(p, loc[p].new_range, "refill"))
    /\ range' = [range EXCEPT ![i] = TakeRange(loc[p].new_range)]
    /\ pc' = [pc EXCEPT ![p] = "idle"]
    /\ ops' = [ops EXCEPT ![p] = <<>>]
    /\ loc' = [loc EXCEPT ![p] = NoLocals]
    /\ UNCHANGED <<eventVars, libVars, params, cursor, txn, ncalls, faults, batches>>

----------------------------------------------------------------------------
(* The event layer: DaosEvent, event_callback and the operations' await.   *)

(* The asynchronous operations routed through a DaosEvent.                 *)
AsyncOps == <<"tx_commit", "obj_fetch", "tx_open", "obj_update", "tx_abort", "tx_close">>

TxnOps == {"tx_open", "tx_commit", "tx_abort", "tx_close"}

AllOps == {AsyncOps[k] : k \in 1..Len(AsyncOps)}

Events == 1..NumEvents

(* The operation that creates event e.                                     *)
OpOf(e) == AsyncOps[((e - 1) % Len(AsyncOps)) + 1]

(* The result codes the native layer completes an operation with.          *)
Codes == (0 - MaxErr)..0

(* The result codes a native call returns and a receiver is handed.        *)
CallCodes == (0 - MaxCode)..MaxCode

(* Err(_) of rx.await: the transaction operations answer ErrorKind::Other, *)
(* the object operations ErrorKind::ConnectionReset.                       *)
RxClosedKind(op) == IF op \in TxnOps THEN "Other" ELSE "ConnectionReset"

(* Ok(ret) of rx.await with ret != 0, and a native call returning res != 0. *)
NativeRetKind(op) == "Other"

(* match rx.await { Ok(ret) => .., Err(_) => .. }                          *)
AwaitResult(op, res) ==
    IF res.closed THEN RxClosedKind(op)
    ELSE IF res.ret # 0 THEN NativeRetKind(op) ELSE "Ok"

NoAwait == [op |-> "tx_commit", call |-> 0, closed |-> FALSE, ret |-> 0, out |-> "idle"]

(* The native call of the operation returns: res != 0 is returned at once. *)
NativeCallReturn ==
    /\ awaited.out = "pending"
    /\ awaited' = [awaited EXCEPT !.out = IF awaited.call # 0
                                         THEN NativeRetKind(awaited.op) ELSE "awaiting"]
    /\ UNCHANGED <<events, queue, allocVars, libVars>>

(* rx.await resolves and the operation returns.                            *)
AwaitReturn ==
    /\ awaited.out = "awaiting"
    /\ awaited' = [awaited EXCEPT !.out =
                      AwaitResult(awaited.op, [closed |-> awaited.closed, ret |-> awaited.ret])]
    /\ UNCHANGED <<events, queue, allocVars, libVars>>

(* An operation that has not started: no DaosEvent, no CallbackArg, no     *)
(* channel.                                                                *)
NoEvent ==
    [tpc |-> "new", ret |-> "none", nat |-> "none", mem |-> "none", arg |-> "none",
     rx |-> "none", val |-> 0, code |-> 0, fired |-> 0, tested |-> "none",
     finis |-> 0, finion |-> "none", early |-> FALSE, q |-> 0, by |-> 0,
     late |-> FALSE]

(* A bug event_callback could have: 0 is sent instead of arg3.             *)
event_callback_zero(r, arg3) ==
    IF r.rx = "open"
    THEN [r EXCEPT !.arg = "consumed", !.fired = @ + 1, !.rx = "value", !.val = 0]
    ELSE [r EXCEPT !.arg = "consumed", !.fired = @ + 1]

(* event_callback: the CallbackArg is taken back from the raw pointer and  *)
(* its sender sends arg3; a send to a dropped receiver fails and the       *)
(* callback answers -1.                                                    *)
event_callback(r, arg3) ==
    IF r.rx = "open"
    THEN [r EXCEPT !.arg = "consumed", !.fired = @ + 1, !.rx = "value", !.val = arg3]
    ELSE [r EXCEPT !.arg = "consumed", !.fired = @ + 1]

(* A bug DropEvent could have: daos_event_fini is called whatever          *)
(* daos_event_test reported.                                               *)
DropEventAlwaysFini(r) ==
    { [r EXCEPT !.tested = IF r.nat = "running" THEN "enqueued" ELSE "left",
                !.finis = @ + 1, !.finion = r.nat, !.nat = "fini", !.mem = "freed"] }

(* Drop for DaosEvent, and the release of the Box<daos_event_t> that       *)
(* follows it whether or not the event was taken: the outcomes of          *)
(* daos_event_test (failed, still enqueued, left the queue) and of         *)
(* daos_event_fini (failed, done).                                         *)
DropEvent(r) ==
    { [r EXCEPT !.tested = "fail", !.mem = "freed"] }
    \cup
    IF r.nat = "running"
    THEN { [r EXCEPT !.tested = "enqueued", !.mem = "freed"] }
    ELSE { [r EXCEPT !.tested = "left", !.finis = @ + 1, !.finion = r.nat,
                     !.nat = "fini", !.mem = "freed"],
           [r EXCEPT !.tested = "left", !.finis = @ + 1, !.finion = r.nat,
                     !.mem = "freed"] }

(* The process is alive and the queue's events can be created; the         *)
(* operations are numbered in the order in which they are issued.          *)
CanLaunch(e) ==
    /\ ~queue.crashed
    /\ queue.handle = "some"
    /\ queue.runs = 0
    /\ events[e].tpc = "new"
    /\ \A f \in Events : f < e => events[f].tpc # "new"

(* DaosEvent::new fails: daos_event_init returned nonzero.                 *)
LaunchInitFail(e) ==
    /\ CanLaunch(e)
    /\ events' = [events EXCEPT ![e] = [@ EXCEPT !.tpc = "done", !.ret = "Other"]]
    /\ UNCHANGED <<queue, awaited, allocVars, libVars>>

(* register_callback fails: the CallbackArg stays behind its raw pointer,  *)
(* the receiver and the event are dropped.                                 *)
LaunchRegisterFail(e) ==
    /\ CanLaunch(e)
    /\ \E r \in DropEvent([events[e] EXCEPT !.tpc = "done", !.ret = "Other",
                                            !.nat = "ready", !.mem = "live",
                                            !.arg = "unregistered", !.rx = "dropped",
                                            !.q = queue.gen]) :
          events' = [events EXCEPT ![e] = r]
    /\ UNCHANGED <<queue, awaited, allocVars, libVars>>

(* The native call of the operation returns nonzero: the operation returns *)
(* the error, the receiver and the event are dropped.                      *)
LaunchCallFail(e) ==
    /\ CanLaunch(e)
    /\ \E r \in DropEvent([events[e] EXCEPT !.tpc = "done", !.ret = NativeRetKind(OpOf(e)),
                                            !.nat = "ready", !.mem = "live",
                                            !.arg = "armed", !.rx = "dropped",
                                            !.q = queue.gen]) :
          events' = [events EXCEPT ![e] = r]
    /\ UNCHANGED <<queue, awaited, allocVars, libVars>>

(* The event is created, the callback registered, the native call issued:  *)
(* the task waits in rx.await.                                             *)
LaunchOk(e) ==
    /\ CanLaunch(e)
    /\ events' = [events EXCEPT ![e] = [@ EXCEPT !.tpc = "await", !.nat = "running",
                                                 !.mem = "live", !.arg = "armed",
                                                 !.rx = "open", !.q = queue.gen]]
    /\ UNCHANGED <<queue, awaited, allocVars, libVars>>

(* A bug PollComplete could have: the poller completes the operations of   *)
(* any queue, not only of the queue it polls.                              *)
PollCompleteAnyQueue(e) ==
    /\ ~queue.crashed
    /\ queue.poller = "poll"
    /\ queue.native = "created"
    /\ events[e].nat = "running"
    /\ \E c \in Codes :
          events' = [events EXCEPT ![e] =
                        event_callback([@ EXCEPT !.nat = "completed", !.code = c,
                                                 !.by = queue.gen,
                                                 !.late = queue.pollerr], c)]
    /\ UNCHANGED <<queue, awaited, allocVars, libVars>>

(* daos_eq_poll(eqh, ..) on the poller thread completes operation e, whose *)
(* event was initialised on eqh, with some result code and runs its        *)
(* completion callback.                                                    *)
PollComplete(e) ==
    /\ ~queue.crashed
    /\ queue.poller = "poll"
    /\ queue.native = "created"
    /\ events[e].nat = "running"
    /\ events[e].q = queue.gen
    /\ \E c \in Codes :
          events' = [events EXCEPT ![e] =
                        event_callback([@ EXCEPT !.nat = "completed", !.code = c,
                                                 !.by = queue.gen,
                                                 !.late = queue.pollerr], c)]
    /\ UNCHANGED <<queue, awaited, allocVars, libVars>>

(* The native layer completes an operation whose daos_event_t was          *)
(* released: a use after free, which may also end the process.             *)
PollUseAfterFree(e) ==
    /\ ~queue.crashed
    /\ queue.poller = "poll"
    /\ queue.native = "created"
    /\ events[e].nat = "running"
    /\ events[e].q = queue.gen
    /\ events[e].mem = "freed"
    /\ queue' = [queue EXCEPT !.crashed = TRUE]
    /\ UNCHANGED <<events, awaited, allocVars, libVars>>

(* rx.await yields the value sent; the operation returns and its locals,   *)
(* the event among them, are dropped.                                      *)
Resume(e) ==
    /\ ~queue.crashed
    /\ events[e].tpc = "await"
    /\ events[e].rx = "value"
    /\ \E r \in DropEvent([events[e] EXCEPT
                              !.tpc = "done", !.rx = "taken",
                              !.ret = AwaitResult(OpOf(e), [closed |-> FALSE,
                                                            ret |-> events[e].val])]) :
          events' = [events EXCEPT ![e] = r]
    /\ UNCHANGED <<queue, awaited, allocVars, libVars>>

(* The pending future of the operation is dropped: the receiver is         *)
(* dropped, then the event.                                                *)
DropFuture(e) ==
    /\ ~queue.crashed
    /\ events[e].tpc = "await"
    /\ \E r \in DropEvent([events[e] EXCEPT
                              !.tpc = "done", !.ret = "cancelled", !.rx = "dropped",
                              !.early = (events[e].nat = "running")]) :
          events' = [events EXCEPT ![e] = r]
    /\ UNCHANGED <<queue, awaited, allocVars, libVars>>

----------------------------------------------------------------------------
(* DaosEventQueue: creation, the poller thread, teardown.                  *)

(* Before DaosEventQueue::new.  trace[k] is what the k-th run of the       *)
(* teardown did, in order; gen counts the calls of DaosEventQueue::new.     *)
NoQueue ==
    [built |-> FALSE, handle |-> "none", native |-> "none", poller |-> "none",
     msgs |-> 0, thread_handle |-> "none", tpc |-> "idle", runs |-> 0, trace |-> <<>>,
     polledDead |-> FALSE, panicked |-> FALSE, crashed |-> FALSE, gen |-> 0,
     pollerr |-> FALSE]

(* The teardown run in progress did one more thing.                        *)
Did(what) == [queue.trace EXCEPT ![Len(queue.trace)] = Append(@, what)]

(* DaosEventQueue::new can be called: no queue was created yet, or the     *)
(* queue created before was dropped, its teardown has returned and its     *)
(* poller thread has ended.                                                *)
CanCreate ==
    /\ ~queue.crashed
    /\ queue.gen < params.queues
    /\ \/ queue.poller = "none"
       \/ /\ queue.built
          /\ queue.runs >= 1
          /\ queue.tpc = "idle"
          /\ queue.poller = "exited"

(* DaosEventQueue::new with daos_eq_create returning 0: a new native queue, *)
(* a new channel, a new poller thread.                                     *)
QueueNewOk ==
    /\ CanCreate
    /\ queue' = [NoQueue EXCEPT !.built = TRUE, !.handle = "some", !.native = "created",
                                !.poller = "check", !.thread_handle = "some",
                                !.gen = queue.gen + 1]
    /\ UNCHANGED <<events, awaited, allocVars, libVars>>

(* DaosEventQueue::new with daos_eq_create failing: the thread was spawned *)
(* all the same, Err is returned, the sender and the join handle are       *)
(* dropped.                                                                *)
QueueNewFail ==
    /\ CanCreate
    /\ queue' = [NoQueue EXCEPT !.poller = "check", !.gen = queue.gen + 1]
    /\ UNCHANGED <<events, awaited, allocVars, libVars>>

(* A bug PollerCheck could have: the shutdown signal is not looked at.     *)
PollerCheckDeaf ==
    /\ ~queue.crashed
    /\ queue.poller = "check"
    /\ queue' = [queue EXCEPT !.poller = "poll"]
    /\ UNCHANGED <<events, awaited, allocVars, libVars>>

(* while rcv.try_recv().is_err(): a message ends the loop and the thread;  *)
(* an empty or a disconnected channel does not.                            *)
PollerCheck ==
    /\ ~queue.crashed
    /\ queue.poller = "check"
    /\ queue' = IF queue.msgs > 0
                THEN [queue EXCEPT !.poller = "exited", !.msgs = @ - 1]
                ELSE [queue EXCEPT !.poller = "poll"]
    /\ UNCHANGED <<events, awaited, allocVars, libVars>>

(* daos_eq_poll(eqh, 1, 50, ..) returns, with ret >= 0.                     *)
PollerPoll ==
    /\ ~queue.crashed
    /\ queue.poller = "poll"
    /\ queue' = [queue EXCEPT !.poller = "check",
                              !.polledDead = @ \/ queue.native = "destroyed"]
    /\ UNCHANGED <<events, awaited, allocVars, libVars>>

(* A bug PollerPollFail could have: a failed poll ends the loop.           *)
PollerPollFailExits ==
    /\ ~queue.crashed
    /\ queue.poller = "poll"
    /\ queue' = [queue EXCEPT !.poller = "exited", !.pollerr = TRUE,
                              !.polledDead = @ \/ queue.native = "destroyed"]
    /\ UNCHANGED <<events, awaited, allocVars, libVars>>

(* daos_eq_poll returns ret < 0: the failure is logged and the loop goes   *)
(* on.                                                                     *)
PollerPollFail ==
    /\ ~queue.crashed
    /\ queue.poller = "poll"
    /\ queue' = [queue EXCEPT !.poller = "check", !.pollerr = TRUE,
                              !.polledDead = @ \/ queue.native = "destroyed"]
    /\ UNCHANGED <<events, awaited, allocVars, libVars>>

(* A run of the teardown can start.                                        *)
CanDrop ==
    /\ ~queue.crashed
    /\ queue.built
    /\ queue.tpc = "idle"
    /\ queue.runs < params.drops

(* Drop for DaosEventQueue with handle None: nothing is done.              *)
DropReleased ==
    /\ CanDrop
    /\ queue.handle = "none"
    /\ queue' = [queue EXCEPT !.runs = @ + 1, !.trace = Append(@, <<>>)]
    /\ UNCHANGED <<events, awaited, allocVars, libVars>>

(* sender.send(0) succeeds: the receiver is alive.  thread_handle.take()   *)
(* .unwrap() follows.                                                      *)
DropSendOk ==
    /\ CanDrop
    /\ queue.handle = "some"
    /\ queue.poller # "exited"
    /\ queue' = [queue EXCEPT !.runs = @ + 1, !.trace = Append(@, <<"send">>),
                              !.msgs = @ + 1,
                              !.tpc = IF queue.thread_handle = "some" THEN "join" ELSE "idle",
                              !.panicked = @ \/ queue.thread_handle = "none",
                              !.thread_handle = "none"]
    /\ UNCHANGED <<events, awaited, allocVars, libVars>>

(* sender.send(0) fails, the poller thread is gone: return.                *)
DropSendErr ==
    /\ CanDrop
    /\ queue.handle = "some"
    /\ queue.poller = "exited"
    /\ queue' = [queue EXCEPT !.runs = @ + 1, !.trace = Append(@, <<"send_err">>)]
    /\ UNCHANGED <<events, awaited, allocVars, libVars>>

(* A bug DropJoin could have: the join does not wait for the thread.       *)
DropJoinNoWait ==
    /\ ~queue.crashed
    /\ queue.tpc = "join"
    /\ queue' = [queue EXCEPT !.tpc = "destroy", !.trace = Did("join")]
    /\ UNCHANGED <<events, awaited, allocVars, libVars>>

(* join_handle.join() returns: the poller thread has ended.                *)
DropJoin ==
    /\ ~queue.crashed
    /\ queue.tpc = "join"
    /\ queue.poller = "exited"
    /\ queue' = [queue EXCEPT !.tpc = "destroy", !.trace = Did("join")]
    /\ UNCHANGED <<events, awaited, allocVars, libVars>>

(* A bug DropDestroyOk could have: the handle is not taken.                *)
DropDestroyOkKeepsHandle ==
    /\ ~queue.crashed
    /\ queue.tpc = "destroy"
    /\ queue' = [queue EXCEPT !.tpc = "idle", !.trace = Did("destroy"),
                              !.native = "destroyed"]
    /\ UNCHANGED <<events, awaited, allocVars, libVars>>

(* daos_eq_destroy(eqh, 0) returns 0: self.handle.take().                   *)
DropDestroyOk ==
    /\ ~queue.crashed
    /\ queue.tpc = "destroy"
    /\ queue' = [queue EXCEPT !.tpc = "idle", !.trace = Did("destroy"),
                              !.native = "destroyed", !.handle = "none"]
    /\ UNCHANGED <<events, awaited, allocVars, libVars>>

(* daos_eq_destroy fails: logged, the handle is kept.                      *)
DropDestroyFail ==
    /\ ~queue.crashed
    /\ queue.tpc = "destroy"
    /\ queue' = [queue EXCEPT !.tpc = "idle", !.trace = Did("destroy_err")]
    /\ UNCHANGED <<events, awaited, allocVars, libVars>>

----------------------------------------------------------------------------
(* The two allocator variants, each as the function one allocate() call    *)
(* computes when it runs alone: from the range r behind the mutex, the     *)
(* persisted cursor c and the native failures F (F[k]: the k-th storage    *)
(* call of the allocate() fails with a nonzero code) to the storage calls  *)
(* issued, the result, the range and the cursor left behind.               *)

NoOutcome ==
    [done |-> FALSE, ops |-> <<>>, ok |-> FALSE, hi |-> 0, lo |-> 0, kind |-> "",
     range |-> EmptyRange, cursor |-> NoCursor]

NoTwin == [range |-> EmptyRange, cursor |-> NoCursor,
           F |-> [k \in 1..MaxOutcomes |-> FALSE],
           async |-> NoOutcome, sync |-> NoOutcome]

(* Err(e) of allocate_oid_batch() after the calls in issued.               *)
BatchErr(issued, c) == [ok |-> FALSE, ops |-> issued, range |-> EmptyRange, cursor |-> c]

BatchOk(issued, r, c) == [ok |-> TRUE, ops |-> issued, range |-> r, cursor |-> c]

(* DaosAsyncOidAllocator::allocate_oid_batch from its update_async on.     *)
AsyncCommitBatch(issued, range_start, c, F) ==
    LET k == Len(issued) + 1 IN
    IF F[k] THEN BatchErr(Append(issued, "update"), c)
    ELSE IF F[k + 1] THEN BatchErr(issued \o <<"update", "commit">>, c)
    ELSE BatchOk(issued \o <<"update", "commit">>,
                 [start |-> range_start, end |-> BatchEnd(range_start)],
                 Written(c, to_le_bytes(BatchEnd(range_start))))

(* DaosAsyncOidAllocator::allocate_oid_batch                               *)
async_allocate_oid_batch(c, F) ==
    IF F[1] THEN BatchErr(<<"open">>, c)
    ELSE IF ~F[2] /\ c.present
    THEN AsyncCommitBatch(<<"open", "fetch">>, from_le_bytes(c.data), c, F)
    ELSE IF ~F[3] /\ ~c.present
    THEN BatchOk(<<"open", "fetch", "insert">>, InitialRange,
                 Written(c, to_le_bytes(InitialCursor)))
    ELSE IF F[4] THEN BatchErr(<<"open", "fetch", "insert", "open">>, c)
    ELSE IF F[5] \/ ~c.present
    THEN BatchErr(<<"open", "fetch", "insert", "open", "fetch">>, c)
    ELSE AsyncCommitBatch(<<"open", "fetch", "insert", "open", "fetch">>,
                          from_le_bytes(c.data), c, F)

(* DaosAsyncOidAllocator::allocate                                         *)
async_allocate(r, c, F) ==
    IF r.start >= r.end
    THEN LET b == async_allocate_oid_batch(c, F) IN
         IF ~b.ok
         THEN [done |-> TRUE, ops |-> b.ops, ok |-> FALSE, hi |-> 0, lo |-> 0,
               kind |-> NativeFailureKind, range |-> r, cursor |-> b.cursor]
         ELSE IF ReservedBitsSet(b.range.start)
         THEN [done |-> TRUE, ops |-> b.ops, ok |-> FALSE, hi |-> 0, lo |-> 0,
               kind |-> ExhaustedKind, range |-> b.range, cursor |-> b.cursor]
         ELSE [done |-> TRUE, ops |-> b.ops, ok |-> TRUE, hi |-> OidHi(b.range.start),
               lo |-> OidLo(b.range.start), kind |-> "",
               range |-> [b.range EXCEPT !.start = @ + 1], cursor |-> b.cursor]
    ELSE IF ReservedBitsSet(r.start)
         THEN [done |-> TRUE, ops |-> <<>>, ok |-> FALSE, hi |-> 0, lo |-> 0,
               kind |-> ExhaustedKind, range |-> r, cursor |-> c]
         ELSE [done |-> TRUE, ops |-> <<>>, ok |-> TRUE, hi |-> OidHi(r.start),
               lo |-> OidLo(r.start), kind |-> "",
               range |-> [r EXCEPT !.start = @ + 1], cursor |-> c]

(* DaosSyncOidAllocator::allocate_oid_batch from its update on.            *)
SyncCommitBatch(issued, range_start, c, F) ==
    LET k == Len(issued) + 1
        updated == ~F[k]
        committed == updated /\ ~F[k + 1]
        calls == IF updated THEN <<"update", "commit">> ELSE <<"update">>
    IN  IF committed
        THEN BatchOk(issued \o calls, [start |-> range_start, end |-> BatchEnd(range_start)],
                     Written(c, to_le_bytes(BatchEnd(range_start))))
        ELSE BatchErr(issued \o calls, c)

(* A bug sync_allocate_oid_batch could have: a refused insert is returned  *)
(* as the error of the claim, without the second fetch.                    *)
sync_allocate_oid_batch_no_requery(c, F) ==
    IF F[1] THEN BatchErr(<<"open">>, c)
    ELSE LET fetched == ~F[2] /\ c.present
             inserted == ~fetched /\ ~F[3] /\ ~c.present
         IN  IF fetched
             THEN SyncCommitBatch(<<"open", "fetch">>, from_le_bytes(c.data), c, F)
             ELSE IF inserted
             THEN BatchOk(<<"open", "fetch", "insert">>, InitialRange,
                          Written(c, to_le_bytes(InitialCursor)))
             ELSE BatchErr(<<"open", "fetch", "insert">>, c)

(* DaosSyncOidAllocator::allocate_oid_batch                                *)
sync_allocate_oid_batch(c, F) ==
    IF F[1] THEN BatchErr(<<"open">>, c)
    ELSE LET fetched == ~F[2] /\ c.present
             inserted == ~fetched /\ ~F[3] /\ ~c.present
             query_again == ~fetched /\ ~inserted
             first == IF query_again THEN <<"open", "fetch", "insert">>
                      ELSE <<"open", "fetch">>
         IN  IF inserted
             THEN BatchOk(<<"open", "fetch", "insert">>, InitialRange,
                          Written(c, to_le_bytes(InitialCursor)))
             ELSE IF query_again /\ F[4] THEN BatchErr(Append(first, "open"), c)
             ELSE IF query_again /\ (F[5] \/ ~c.present)
             THEN BatchErr(first \o <<"open", "fetch">>, c)
             ELSE SyncCommitBatch(IF query_again THEN first \o <<"open", "fetch">>
                                  ELSE first,
                                  from_le_bytes(c.data), c, F)

(* DaosSyncOidAllocator::allocate                                          *)
sync_allocate(r, c, F) ==
    LET b == IF r.start >= r.end THEN sync_allocate_oid_batch(c, F)
             ELSE BatchOk(<<>>, r, c)
    IN  IF ~b.ok
        THEN [done |-> TRUE, ops |-> b.ops, ok |-> FALSE, hi |-> 0, lo |-> 0,
              kind |-> NativeFailureKind, range |-> r, cursor |-> b.cursor]
        ELSE IF ReservedBitsSet(b.range.start)
        THEN [done |-> TRUE, ops |-> b.ops, ok |-> FALSE, hi |-> 0, lo |-> 0,
              kind |-> ExhaustedKind, range |-> b.range, cursor |-> b.cursor]
        ELSE [done |-> TRUE, ops |-> b.ops, ok |-> TRUE, hi |-> OidHi(b.range.start),
              lo |-> OidLo(b.range.start), kind |-> "",
              range |-> [b.range EXCEPT !.start = @ + 1], cursor |-> b.cursor]

(* The asynchronous allocator's call returns.                              *)
AsyncAllocateRun ==
    /\ ~twin.async.done
    /\ twin' = [twin EXCEPT !.async = async_allocate(twin.range, twin.cursor, twin.F)]
    /\ UNCHANGED <<allocVars, eventVars, once, conn, issue>>

(* The synchronous allocator's call returns.                               *)
SyncAllocateRun ==
    /\ ~twin.sync.done
    /\ twin' = [twin EXCEPT !.sync = sync_allocate(twin.range, twin.cursor, twin.F)]
    /\ UNCHANGED <<allocVars, eventVars, once, conn, issue>>

----------------------------------------------------------------------------
(* DaosPool::new and the one-time initialisation of the client library.    *)

(* The modules that define a DaosPool and the `static INIT_DAOS: Once`     *)
(* its new() goes through: daos_pool.rs and daos.rs.                       *)
Modules == {"daos_pool", "daos"}

Threads == 1..NumThreads

(* cell[m] is the state of the Once of module m, at[t] where thread t      *)
(* stands, inits the number of daos_init() calls made, pools[m] the number *)
(* of DaosPool values of module m that new() has returned.                 *)
NoOnce ==
    [cell |-> [m \in Modules |-> "incomplete"],
     at |-> [t \in Threads |-> [pc |-> "idle", m |-> "daos_pool"]],
     inits |-> 0,
     pools |-> [m \in Modules |-> 0]]

(* Thread t calls DaosPool::new of module m and reaches INIT_DAOS.call_once. *)
PoolNewEnter(t, m) ==
    /\ once.at[t].pc = "idle"
    /\ once.pools["daos_pool"] + once.pools["daos"] < MaxPools
    /\ once' = [once EXCEPT !.at[t] = [pc |-> "call_once", m |-> m]]
    /\ UNCHANGED <<allocVars, eventVars, twin, conn, issue>>

(* call_once on a Once that no thread has entered: this thread runs the    *)
(* closure.                                                                *)
CallOnceRun(t) ==
    LET m == once.at[t].m IN
    /\ once.at[t].pc = "call_once"
    /\ once.cell[m] = "incomplete"
    /\ once' = [once EXCEPT !.cell[m] = "running", !.at[t].pc = "init"]
    /\ UNCHANGED <<allocVars, eventVars, twin, conn, issue>>

(* call_once on a Once whose closure has run: nothing is called; while the *)
(* closure is running on another thread the call blocks.                   *)
CallOnceWait(t) ==
    LET m == once.at[t].m IN
    /\ once.at[t].pc = "call_once"
    /\ once.cell[m] = "complete"
    /\ once' = [once EXCEPT !.at[t].pc = "return"]
    /\ UNCHANGED <<allocVars, eventVars, twin, conn, issue>>

(* The closure: unsafe { daos_init(); }                                     *)
DaosInit(t) ==
    LET m == once.at[t].m IN
    /\ once.at[t].pc = "init"
    /\ once' = [once EXCEPT !.cell[m] = "complete", !.inits = @ + 1,
                            !.at[t].pc = "return"]
    /\ UNCHANGED <<allocVars, eventVars, twin, conn, issue>>

(* DaosPool { label, handle: None } is returned.                           *)
PoolNewReturn(t) ==
    LET m == once.at[t].m IN
    /\ once.at[t].pc = "return"
    /\ once' = [once EXCEPT !.pools[m] = @ + 1, !.at[t].pc = "idle"]
    /\ UNCHANGED <<allocVars, eventVars, twin, conn, issue>>

----------------------------------------------------------------------------
(* DaosPool and DaosContainer: connect and disconnect.                     *)

(* What the last call of connect or disconnect on an object found (had:    *)
(* the handle it held, 0 for None), returned, and whether it called the    *)
(* native layer.                                                           *)
Call(op, had, ret, native) == [op |-> op, had |-> had, ret |-> ret, native |-> native]

(* A DaosPool or DaosContainer after new(): no handle, no event queue.     *)
(* opens and closes count the native open and close calls made for it; a   *)
(* handle is named by the number of the open call that returned it.        *)
NoObject ==
    [handle |-> 0, eq |-> "none", opens |-> 0, closes |-> 0,
     last |-> Call("none", 0, "none", FALSE)]

NoConn == [pool |-> NoObject, cont |-> NoObject, calls |-> 0]

(* A bug pool_connect could have: the pool is connected again whatever it  *)
(* holds.                                                                  *)
pool_connect_reopens(o, res) ==
    IF res = 0
    THEN [o EXCEPT !.handle = o.opens + 1, !.opens = @ + 1,
                   !.last = Call("connect", o.handle, "Ok", TRUE)]
    ELSE [o EXCEPT !.opens = @ + 1, !.last = Call("connect", o.handle, "Other", TRUE)]

(* DaosPool::connect, with res the result of daos_pool_connect2.            *)
pool_connect(o, res) ==
    IF o.handle # 0
    THEN [o EXCEPT !.last = Call("connect", o.handle, "Ok", FALSE)]
    ELSE IF res = 0
    THEN [o EXCEPT !.handle = o.opens + 1, !.opens = @ + 1,
                   !.last = Call("connect", 0, "Ok", TRUE)]
    ELSE [o EXCEPT !.opens = @ + 1, !.last = Call("connect", 0, "Other", TRUE)]

(* DaosPool::disconnect, with res the result of daos_pool_disconnect.       *)
pool_disconnect(o, res) ==
    IF o.handle # 0
    THEN IF res = 0
         THEN [o EXCEPT !.handle = 0, !.closes = @ + 1,
                        !.last = Call("disconnect", o.handle, "Ok", TRUE)]
         ELSE [o EXCEPT !.closes = @ + 1,
                        !.last = Call("disconnect", o.handle, "Other", TRUE)]
    ELSE [o EXCEPT !.last = Call("disconnect", 0, "Ok", FALSE)]

(* DaosContainer::create_eq, with eqres the result of DaosEventQueue::new:  *)
(* what it does to the event queue and what it returns.                    *)
create_eq(o, eqres) ==
    IF o.eq = "some" THEN [eq |-> "some", ret |-> "Ok"]
    ELSE IF eqres = 0 THEN [eq |-> "some", ret |-> "Ok"]
    ELSE [eq |-> "none", ret |-> "Other"]

(* DaosContainer::connect, with poh the handle of the pool and res the     *)
(* result of daos_cont_open2.                                              *)
cont_connect(o, poh, res, eqres) ==
    IF o.handle # 0
    THEN [o EXCEPT !.last = Call("connect", o.handle, "Ok", FALSE)]
    ELSE IF poh = 0
    THEN [o EXCEPT !.last = Call("connect", 0, "Other", FALSE)]
    ELSE IF res = 0
    THEN [o EXCEPT !.handle = o.opens + 1, !.opens = @ + 1,
                   !.eq = create_eq(o, eqres).eq,
                   !.last = Call("connect", 0, create_eq(o, eqres).ret, TRUE)]
    ELSE [o EXCEPT !.opens = @ + 1, !.last = Call("connect", 0, "Other", TRUE)]

(* A bug cont_disconnect could have: daos_cont_close is called whatever    *)
(* the container holds.                                                    *)
cont_disconnect_always_closes(o, res) ==
    IF res = 0
    THEN [o EXCEPT !.handle = 0, !.closes = @ + 1,
                   !.last = Call("disconnect", o.handle, "Ok", TRUE)]
    ELSE [o EXCEPT !.closes = @ + 1,
                   !.last = Call("disconnect", o.handle, "Other", TRUE)]

(* DaosContainer::disconnect, with res the result of daos_cont_close.       *)
cont_disconnect(o, res) ==
    IF o.handle # 0
    THEN IF res = 0
         THEN [o EXCEPT !.handle = 0, !.closes = @ + 1,
                        !.last = Call("disconnect", o.handle, "Ok", TRUE)]
         ELSE [o EXCEPT !.closes = @ + 1,
                        !.last = Call("disconnect", o.handle, "Other", TRUE)]
    ELSE [o EXCEPT !.last = Call("disconnect", 0, "Ok", FALSE)]

PoolConnect ==
    /\ conn.calls < MaxConnCalls
    /\ \E res \in Codes :
          conn' = [conn EXCEPT !.pool = pool_connect(@, res), !.calls = @ + 1]
    /\ UNCHANGED <<allocVars, eventVars, twin, once, issue>>

PoolDisconnect ==
    /\ conn.calls < MaxConnCalls
    /\ \E res \in Codes :
          conn' = [conn EXCEPT !.pool = pool_disconnect(@, res), !.calls = @ + 1]
    /\ UNCHANGED <<allocVars, eventVars, twin, once, issue>>

ContConnect ==
    /\ conn.calls < MaxConnCalls
    /\ \E res, eqres \in Codes :
          conn' = [conn EXCEPT !.cont = cont_connect(@, conn.pool.handle, res, eqres),
                              !.calls = @ + 1]
    /\ UNCHANGED <<allocVars, eventVars, twin, once, issue>>

ContDisconnect ==
    /\ conn.calls < MaxConnCalls
    /\ \E res \in Codes :
          conn' = [conn EXCEPT !.cont = cont_disconnect(@, res), !.calls = @ + 1]
    /\ UNCHANGED <<allocVars, eventVars, twin, once, issue>>

----------------------------------------------------------------------------
(* The prologue of an asynchronous operation: what it does with its        *)
(* DaosEvent, step by step, up to rx.await.                                *)

(* open_async, commit_async, abort_async, close_async of DaosTxn: the      *)
(* event is created, register_callback is called, then daos_tx_* is        *)
(* called with event.as_mut().                                             *)
TxnProgram(op) == <<"event_init", "register", "native", "await">>

(* A bug ObjProgram could have: punch_async calls daos_obj_punch before it *)
(* registers the callback.                                                 *)
ObjProgramPunchFirst(op) ==
    IF op = "obj_create"
    THEN <<"event_init", "allocate", "generate_oid", "register", "native", "await">>
    ELSE IF op = "obj_punch"
    THEN <<"event_init", "native", "register", "await">>
    ELSE <<"event_init", "register", "native", "await">>

(* The asynchronous operations of DaosObject: create_async allocates and   *)
(* generates the object id between the creation of its event and           *)
(* register_callback; the others register right after DaosEvent::new.      *)
ObjProgram(op) ==
    IF op = "obj_create"
    THEN <<"event_init", "allocate", "generate_oid", "register", "native", "await">>
    ELSE <<"event_init", "register", "native", "await">>

(* query_prop_async of DaosContainer: the DaosProperty is allocated        *)
(* between register_callback and daos_cont_query.                          *)
ContProgram(op) == <<"event_init", "register", "prop_new", "native", "await">>

IssueTxnOps == {"tx_open", "tx_commit", "tx_abort", "tx_close"}

IssueObjOps == {"obj_create", "obj_open", "obj_punch", "obj_fetch", "obj_update",
                "obj_fetch_recx", "obj_update_recx", "obj_list_dkey"}

IssueContOps == {"cont_query"}

IssueOps == IssueTxnOps \cup IssueObjOps \cup IssueContOps

Program(op) ==
    IF op \in IssueTxnOps THEN TxnProgram(op)
    ELSE IF op \in IssueObjOps THEN ObjProgram(op)
    ELSE ContProgram(op)

(* No operation runs: at is the step the operation stands before, done the *)
(* steps it has taken on its event, cbs the callbacks the native layer      *)
(* holds for the event.                                                     *)
NoIssue == [op |-> "none", at |-> 0, done |-> <<>>, cbs |-> 0, out |-> "idle", ret |-> 0]

(* The operation is called.                                                *)
IssueBegin ==
    /\ issue.out = "idle"
    /\ \E op \in IssueOps :
          issue' = [NoIssue EXCEPT !.op = op, !.at = 1, !.out = "running"]
    /\ UNCHANGED <<allocVars, eventVars, twin, once, conn>>

(* The step the operation stands before succeeds: daos_event_init,         *)
(* daos_event_register_comp_cb and the native call return 0.               *)
IssueStep ==
    /\ issue.out = "running"
    /\ Program(issue.op)[issue.at] # "await"
    /\ issue' = [issue EXCEPT
                    !.at = @ + 1,
                    !.done = Append(@, Program(issue.op)[issue.at]),
                    !.cbs = IF Program(issue.op)[issue.at] = "register" THEN @ + 1 ELSE @]
    /\ UNCHANGED <<allocVars, eventVars, twin, once, conn>>

(* The step fails and the operation returns the error: `?` or              *)
(* `return Err(..)`.                                                       *)
IssueStepFail ==
    /\ issue.out = "running"
    /\ Program(issue.op)[issue.at] # "await"
    /\ issue' = [issue EXCEPT !.out = "Err", !.ret = -1]
    /\ UNCHANGED <<allocVars, eventVars, twin, once, conn>>

(* rx.await yields the code the callback sent.                             *)
IssueAwait ==
    /\ issue.out = "running"
    /\ Program(issue.op)[issue.at] = "await"
    /\ \E c \in Codes :
          issue' = [issue EXCEPT !.done = Append(@, "await"), !.ret = c,
                                 !.out = IF c = 0 THEN "Ok" ELSE "Err"]
    /\ UNCHANGED <<allocVars, eventVars, twin, once, conn>>

----------------------------------------------------------------------------
(* Specifications.                                                         *)

(* The first cursor value at or below x that some sequence of claims       *)
(* leaves behind (the claimed values are start + k * batch, k >= 1).       *)
AlignDown(x, start, batch) == x - ((x - start) % batch)

(* The cursor of a container that earlier allocators have used up to the   *)
(* last batch below the first reserved bit.                                *)
SeedCursors == { AlignDown(Threshold - 1, SmallStart, SmallBatch) }

InitCommon ==
    /\ range = [i \in Insts |-> EmptyRange]
    /\ pc = [p \in Procs |-> "idle"]
    /\ loc = [p \in Procs |-> NoLocals]
    /\ txn = [p \in Procs |-> <<>>]
    /\ ops = [p \in Procs |-> <<>>]
    /\ ncalls = 0
    /\ faults = 0
    /\ log = [i \in Insts |-> <<>>]
    /\ batches = <<>>

(* No queue was created and no operation is awaited.                       *)
InitEventLayer ==
    /\ events = [e \in Events |-> NoEvent]
    /\ queue = NoQueue
    /\ awaited = NoAwait

(* No DaosPool and no DaosContainer was created or connected.              *)
InitLibrary ==
    /\ twin = NoTwin
    /\ once = NoOnce
    /\ conn = NoConn
    /\ issue = NoIssue

(* Concurrent callers, on a container that is new or was used before. The *)
(* event layer and the pool and container objects take no part: every      *)
(* storage call of the allocator is one step that succeeds or fails.       *)
Init ==
    /\ params = [batch |-> SmallBatch, start |-> SmallStart, maxcalls |-> MaxCalls, queues |-> 1,
                 drops |-> MaxDrops]
    /\ cursor \in {NoCursor} \cup {Written(NoCursor, to_le_bytes(v)) : v \in SeedCursors}
    /\ InitCommon
    /\ events = <<>> /\ queue = <<>> /\ awaited = <<>>
    /\ twin = <<>> /\ once = <<>> /\ conn = <<>> /\ issue = <<>>

Next ==
    \E p \in Procs :
        \/ AllocateFast(p)
        \/ AllocateSlow(p)
        \/ TxnOpenOk(p)
        \/ TxnOpenFault(p)
        \/ FetchOk(p)
        \/ FetchNotFound(p)
        \/ FetchFault(p)
        \/ InsertOk(p)
        \/ InsertExists(p)
        \/ InsertFault(p)
        \/ TxnReopenOk(p)
        \/ TxnReopenFault(p)
        \/ RefetchOk(p)
        \/ RefetchNotFound(p)
        \/ RefetchFault(p)
        \/ UpdateOk(p)
        \/ UpdateFault(p)
        \/ CommitOk(p)
        \/ CommitConflict(p)
        \/ CommitFault(p)
        \/ Install(p)

Spec == Init /\ [][Next]_vars

(* Two callers of one instance and a caller of another instance.           *)
RefillProcs == {1, 2, NumInsts + 1}

(* A call enters allocate().                                               *)
AllocateEnter(p) ==
    \/ AllocateFast(p)
    \/ AllocateSlow(p)

(* A storage call of the batch claim returns, or the claimed range is      *)
(* installed.                                                              *)
AllocateReturn(p) ==
    \/ TxnOpenOk(p)
    \/ TxnOpenFault(p)
    \/ FetchOk(p)
    \/ FetchNotFound(p)
    \/ FetchFault(p)
    \/ InsertOk(p)
    \/ InsertExists(p)
    \/ InsertFault(p)
    \/ TxnReopenOk(p)
    \/ TxnReopenFault(p)
    \/ RefetchOk(p)
    \/ RefetchNotFound(p)
    \/ RefetchFault(p)
    \/ UpdateOk(p)
    \/ UpdateFault(p)
    \/ CommitOk(p)
    \/ CommitConflict(p)
    \/ CommitFault(p)
    \/ Install(p)

NextRefill ==
    \E p \in RefillProcs :
        \/ AllocateEnter(p)
        \/ AllocateReturn(p)

SpecRefill == Init /\ [][NextRefill]_vars

(* The same callers on a new container, when every storage call that was   *)
(* issued returns and the lock of the range is granted to who waits for    *)
(* it.                                                                     *)
InitRefillFair == Init /\ cursor = NoCursor

SpecRefillFair ==
    InitRefillFair /\ [][NextRefill]_vars /\ \A p \in RefillProcs : WF_vars(AllocateReturn(p))

(* One allocator instance with one caller, calling allocate() again and    *)
(* again on a new container, with the constants of the build and a storage *)
(* engine whose calls all succeed.                                         *)
InitConcrete ==
    /\ params = [batch |-> OID_BATCH_SIZE, start |-> OID_BATCH_CURSOR_START,
                 maxcalls |-> ConcreteCalls,
                 queues |-> 1, drops |-> MaxDrops]
    /\ cursor = NoCursor
    /\ InitCommon
    /\ InitEventLayer
    /\ InitLibrary

NextConcrete ==
    \/ AllocateFast(1)
    \/ AllocateSlow(1)
    \/ TxnOpenOk(1)
    \/ FetchOk(1)
    \/ FetchNotFound(1)
    \/ InsertOk(1)
    \/ UpdateOk(1)
    \/ CommitOk(1)
    \/ Install(1)

SpecConcrete == InitConcrete /\ [][NextConcrete]_vars

(* The allocator at rest, for the specifications of the event layer.       *)
InitAllocIdle ==
    /\ params = [batch |-> SmallBatch, start |-> SmallStart, maxcalls |-> 0, queues |-> 1,
                 drops |-> MaxDrops]
    /\ cursor = NoCursor
    /\ InitCommon

(* One event queue with its poller thread and the asynchronous operations  *)
(* issued on it, each with its own DaosEvent; the queue may be torn down   *)
(* at any time, more than once.                                            *)
InitEvent ==
    /\ InitAllocIdle
    /\ InitEventLayer
    /\ InitLibrary

NextEvent ==
    \/ QueueNewOk
    \/ QueueNewFail
    \/ PollerCheck
    \/ PollerPoll
    \/ DropReleased
    \/ DropSendOk
    \/ DropSendErr
    \/ DropJoin
    \/ DropDestroyOk
    \/ DropDestroyFail
    \/ \E e \in Events :
          \/ LaunchInitFail(e)
          \/ LaunchRegisterFail(e)
          \/ LaunchCallFail(e)
          \/ LaunchOk(e)
          \/ PollComplete(e)
          \/ PollUseAfterFree(e)
          \/ Resume(e)
          \/ DropFuture(e)

SpecEvent == InitEvent /\ [][NextEvent]_vars

(* One event queue whose polls may fail, up to the return of its teardown; *)
(* every operation is issued successfully and may be cancelled.            *)
NextPoll ==
    \/ QueueNewOk
    \/ PollerCheck
    \/ PollerPoll
    \/ PollerPollFail
    \/ DropSendOk
    \/ DropJoin
    \/ DropDestroyOk
    \/ DropDestroyFail
    \/ \E e \in Events :
          \/ LaunchOk(e)
          \/ PollComplete(e)
          \/ PollUseAfterFree(e)
          \/ Resume(e)
          \/ DropFuture(e)

SpecPoll == InitEvent /\ [][NextPoll]_vars

(* One event queue from its creation to the return of its teardown, with   *)
(* operations that stay awaited, under the scheduling the threads get:     *)
(* the poller thread runs, every daos_eq_poll returns (its timeout is 50), *)
(* and the thread running the teardown goes on when its join and its       *)
(* daos_eq_destroy return.                                                 *)
NextShutdown ==
    \/ QueueNewOk
    \/ PollerCheck
    \/ PollerPoll
    \/ PollerPollFail
    \/ DropSendOk
    \/ DropJoin
    \/ DropDestroyOk
    \/ DropDestroyFail
    \/ \E e \in Events :
          \/ LaunchOk(e)
          \/ PollComplete(e)

SpecShutdown ==
    /\ InitEvent
    /\ [][NextShutdown]_vars
    /\ WF_vars(PollerCheck)
    /\ WF_vars(PollerPoll \/ PollerPollFail)
    /\ WF_vars(DropJoin)
    /\ WF_vars(DropDestroyOk \/ DropDestroyFail)

(* One event queue whose creation succeeds or fails, its poller thread,    *)
(* the operations issued on it and the tasks awaiting them, and its        *)
(* teardown at any time.  The poller thread runs on; a teardown that has   *)
(* started goes on; the native layer completes an operation that is in     *)
(* flight when the queue is polled again and again; a task whose receiver  *)
(* holds a value is resumed.                                               *)
NextProgress ==
    \/ NextShutdown
    \/ QueueNewFail
    \/ \E e \in Events : Resume(e)

SpecProgress ==
    /\ InitEvent
    /\ [][NextProgress]_vars
    /\ WF_vars(PollerCheck)
    /\ WF_vars(PollerPoll \/ PollerPollFail)
    /\ WF_vars(DropJoin)
    /\ WF_vars(DropDestroyOk \/ DropDestroyFail)
    /\ \A e \in Events : SF_vars(PollComplete(e)) /\ WF_vars(Resume(e))

(* A process that creates another event queue after it has dropped one,    *)
(* once, while operations issued on the dropped queue may still be in      *)
(* flight; every queue is created and every operation is issued           *)
(* successfully.                                                           *)
InitQueues ==
    /\ params = [batch |-> SmallBatch, start |-> SmallStart, maxcalls |-> 0,
                 queues |-> MaxQueues, drops |-> 1]
    /\ cursor = NoCursor
    /\ InitCommon
    /\ InitEventLayer
    /\ InitLibrary

NextQueues ==
    \/ QueueNewOk
    \/ PollerCheck
    \/ PollerPoll
    \/ DropSendOk
    \/ DropJoin
    \/ DropDestroyOk
    \/ DropDestroyFail
    \/ \E e \in Events :
          \/ LaunchOk(e)
          \/ PollComplete(e)
          \/ PollUseAfterFree(e)
          \/ Resume(e)
          \/ DropFuture(e)

SpecQueues == InitQueues /\ [][NextQueues]_vars

(* The tail of an asynchronous operation, from its native call on, for     *)
(* every operation, every code the native call can return and everything   *)
(* the receiver can yield.                                                 *)
InitAwait ==
    /\ InitAllocIdle
    /\ events = [e \in Events |-> NoEvent]
    /\ queue = NoQueue
    /\ awaited \in [op : AllOps, call : CallCodes, closed : BOOLEAN, ret : CallCodes,
                    out : {"pending"}]
    /\ InitLibrary

NextAwait ==
    \/ NativeCallReturn
    \/ AwaitReturn

SpecAwait == InitAwait /\ [][NextAwait]_vars

(* The ranges an allocate() call can find behind the mutex: empty, holding *)
(* ids, pointing at the first reserved value.                              *)
TwinRanges ==
    { EmptyRange,
      [start |-> SmallStart, end |-> SmallStart + SmallBatch],
      [start |-> Threshold - 1, end |-> Threshold],
      [start |-> Threshold, end |-> Threshold + SmallBatch] }

(* The cursors it can find persisted: none, after the bootstrap, at the    *)
(* last batch below the reserved bits, on the first reserved value, on the *)
(* last value of the counter.                                              *)
TwinCursors ==
    {NoCursor} \cup
    { Written(NoCursor, to_le_bytes(v)) :
        v \in {SmallStart + SmallBatch, Threshold - SmallBatch, Threshold,
               OidModulus - 1} }

(* One call of each allocator variant, for every range, cursor and         *)
(* pattern of native failures.                                             *)
InitTwin ==
    /\ InitAllocIdle
    /\ InitEventLayer
    /\ once = NoOnce
    /\ conn = NoConn
    /\ issue = NoIssue
    /\ twin \in [range : TwinRanges, cursor : TwinCursors,
                  F : [1..MaxOutcomes -> BOOLEAN],
                  async : {NoOutcome}, sync : {NoOutcome}]

NextTwin ==
    \/ AsyncAllocateRun
    \/ SyncAllocateRun

SpecTwin == InitTwin /\ [][NextTwin]_vars

(* Threads that create DaosPool values of either module.                   *)
InitOnce ==
    /\ InitAllocIdle
    /\ InitEventLayer
    /\ InitLibrary

NextOnce ==
    \E t \in Threads :
        \/ \E m \in Modules : PoolNewEnter(t, m)
        \/ CallOnceRun(t)
        \/ CallOnceWait(t)
        \/ DaosInit(t)
        \/ PoolNewReturn(t)

SpecOnce == InitOnce /\ [][NextOnce]_vars

(* One DaosPool and one DaosContainer, connected and disconnected in any   *)
(* order, with native calls that succeed or fail.                          *)
InitConnect ==
    /\ InitAllocIdle
    /\ InitEventLayer
    /\ InitLibrary

NextConnect ==
    \/ PoolConnect
    \/ PoolDisconnect
    \/ ContConnect
    \/ ContDisconnect

SpecConnect == InitConnect /\ [][NextConnect]_vars

(* One asynchronous operation of the library, any of them, run from its    *)
(* call to its return with steps that succeed or fail.                     *)
InitIssue ==
    /\ InitAllocIdle
    /\ InitEventLayer
    /\ InitLibrary

NextIssue ==
    \/ IssueBegin
    \/ IssueStep
    \/ IssueStepFail
    \/ IssueAwait

SpecIssue == InitIssue /\ [][NextIssue]_vars


----------------------------------------------------------------------------
(* What the properties below read from the history.                        *)

(* The places <<instance, index>> of the results returned so far.          *)
AllRecs == UNION { { <<i, k>> : k \in 1..Len(log[i]) } : i \in Insts }

Rec(x) == log[x[1]][x[2]]

(* The 128-bit value of a returned DaosObjectId.                           *)
OidValue(r) == r.hi * HalfModulus + r.lo

CursorValue(c) == IF c.present THEN from_le_bytes(c.data) ELSE 0

Disjoint(a, b) == a.end <= b.start \/ b.end <= a.start

(* The places of allocate_oid_batch() at which a storage call is pending.  *)
ClaimPcs == {"open", "fetch", "insert", "reopen", "refetch", "update", "commit"}

ClaimFailures == {"open", "fetch", "update", "commit"}

(* The storage calls of a batch claim that finds the cursor, and of one    *)
(* that does not and loses the bootstrap.                                  *)
ClaimDirect == <<"open", "fetch", "update", "commit">>

ClaimBootstrap == <<"open", "fetch", "insert", "open", "fetch", "update", "commit">>

IsPrefix(s, t) == Len(s) <= Len(t) /\ \A k \in 1..Len(s) : s[k] = t[k]

----------------------------------------------------------------------------
(* C1. Uniqueness: no two successful allocate() calls, of one instance or  *)
(* of different instances sharing the cursor, under any interleaving,      *)
(* return the same ObjectId (hi, lo).                                      *)
C1_Uniqueness ==
    \A x, y \in AllRecs :
        (x # y /\ Rec(x).ok /\ Rec(y).ok)
            => <<Rec(x).hi, Rec(x).lo>> # <<Rec(y).hi, Rec(y).lo>>

(* Two concurrent callers of one instance both refilled and got an id, and *)
(* a caller of another instance got one too.                               *)
C1_Witness ==
    \E x, y, z \in AllRecs :
        /\ Rec(x).ok /\ Rec(y).ok /\ Rec(z).ok
        /\ x[1] = y[1] /\ Rec(x).proc # Rec(y).proc
        /\ Rec(x).path = "refill" /\ Rec(y).path = "refill"
        /\ z[1] # x[1]

(* C2. Batch disjointness: the ranges [start, end) returned by any two     *)
(* successful batch claims, of the same or of different instances, are     *)
(* disjoint.                                                               *)
C2_BatchesDisjoint ==
    \A k, m \in 1..Len(batches) :
        k < m => Disjoint(batches[k], batches[m])

(* Three batches were claimed, one by the bootstrap insert and one by a    *)
(* commit of a caller of another instance.                                 *)
C2_Witness ==
    /\ Len(batches) >= 3
    /\ \E k, m \in 1..Len(batches) :
          /\ batches[k].via = "insert"
          /\ batches[m].via = "commit"
          /\ InstOf(batches[k].proc) # InstOf(batches[m].proc)

(* C3. Bootstrap race: of two batch claims whose first fetch found no      *)
(* cursor, at most one has its insert succeed, and that one returns        *)
(* [INITIAL, INITIAL + BATCH_SIZE) after open, fetch, insert; one whose    *)
(* insert was refused opens a fresh transaction and fetches again, and     *)
(* the batch it returns is disjoint from the winner's.  When these two     *)
(* claims are all that runs and no native call fails, exactly one insert   *)
(* succeeds and the other claim returns its batch.                         *)
C3_BootstrapRace ==
    \A x, y \in AllRecs :
        LET a == Rec(x)
            b == Rec(y)
        IN  (x # y /\ a.first = "absent" /\ b.first = "absent") =>
              /\ ~(a.ins = "ok" /\ b.ins = "ok")
              /\ a.ins = "ok" =>
                    /\ a.claimed = [start |-> params.start,
                                    end |-> params.start + params.batch]
                    /\ a.ops = <<"open", "fetch", "insert">>
              /\ b.ins = "exists" =>
                    /\ Len(b.ops) >= 4 /\ b.ops[4] = "open"
                    /\ Len(b.ops) >= 5 => b.ops[5] = "fetch"
                    /\ b.ok => b.ops = <<"open", "fetch", "insert", "open", "fetch",
                                         "update", "commit">>
              /\ (a.ins = "ok" /\ b.ok) => Disjoint(a.claimed, b.claimed)
              /\ (ncalls = 2 /\ faults = 0) =>
                    /\ {a.ins, b.ins} = {"ok", "exists"}
                    /\ a.ok /\ b.ok

(* Two instances raced on a new container: both first fetches found        *)
(* nothing, one insert won, the other was refused and its claim returned.  *)
C3_Witness ==
    \E x, y \in AllRecs :
        /\ x[1] # y[1]
        /\ Rec(x).first = "absent" /\ Rec(y).first = "absent"
        /\ Rec(x).ins = "ok" /\ Rec(y).ins = "exists"
        /\ Rec(x).ok /\ Rec(y).ok

(* C4. Batch monotonicity: no step decreases the persisted cursor; a       *)
(* successful batch claim on an existing cursor increases it by exactly    *)
(* OID_BATCH_SIZE; a step that is no successful claim, a failed claim in   *)
(* particular, leaves it as it is.                                         *)
C4_CursorStep ==
    /\ cursor.present => cursor'.present /\ CursorValue(cursor') >= CursorValue(cursor)
    /\ (cursor.present /\ Len(batches') = Len(batches) + 1)
          => CursorValue(cursor') = CursorValue(cursor) + params.batch
    /\ batches' = batches => cursor' = cursor
    /\ \A p \in Procs :
          (pc[p] \in ClaimPcs /\ pc'[p] = "idle") => cursor' = cursor

C4_BatchMonotonic == [][C4_CursorStep]_vars

(* The cursor was advanced by a commit, and a claim failed.                *)
C4_Witness ==
    /\ \E k \in 1..Len(batches) : batches[k].via = "commit"
    /\ \E x \in AllRecs : Rec(x).cause \in ClaimFailures

(* C5. The persisted cursor is at least the end of every range that was    *)
(* successfully claimed, and of every range installed in an instance.      *)
C5_CursorCoversClaims ==
    /\ \A k \in 1..Len(batches) :
          cursor.present /\ batches[k].end <= CursorValue(cursor)
    /\ \A i \in Insts : range[i].end <= CursorValue(cursor)

(* Two batches were claimed and one of them is installed.                  *)
C5_Witness ==
    /\ Len(batches) >= 2
    /\ \E i \in Insts : range[i].end > 0 /\ range[i].end < CursorValue(cursor)

(* C6. With OID_BATCH_SIZE = 1024 and OID_BATCH_CURSOR_START = 1024, on a  *)
(* new container and one instance called sequentially: the k-th call       *)
(* (1 <= k <= 1024) returns hi = 0, lo = 1023 + k, calls 2..1024 issue no  *)
(* storage call, and call 1025 claims [2048, 3072) in one batch claim and  *)
(* returns hi = 0, lo = 2048.                                              *)
C6_ConcreteSequence ==
    /\ params.batch = 1024 /\ params.start = 1024
    /\ \A k \in 1..Len(log[1]) :
          LET r == log[1][k] IN
          /\ k <= 1024 => r.ok /\ r.hi = 0 /\ r.lo = 1023 + k
          /\ (2 <= k /\ k <= 1024) => r.ops = <<>> /\ r.path = "fast"
          /\ k = 1025 =>
                /\ r.ok /\ r.hi = 0 /\ r.lo = 2048
                /\ r.ops = <<"open", "fetch", "update", "commit">>
                /\ r.claimed = [start |-> 2048, end |-> 3072]
                /\ Len(batches) = 2
                /\ CursorValue(cursor) = 3072
    /\ ncalls <= 1024 => Len(batches) <= 1 /\ CursorValue(cursor) <= 2048

(* The 1025th call has returned.                                           *)
C6_Witness == Len(log[1]) >= 1025

(* C7. The fast path performs no I/O: a call entered while start < end     *)
(* returns in the same step, opens no transaction, issues no storage call  *)
(* and leaves the persisted cursor unchanged.                              *)
C7_FastStep ==
    \A p \in Procs :
        LET i == InstOf(p) IN
        ( /\ pc[p] = "idle"
          /\ ncalls' = ncalls + 1
          /\ range[i].start < range[i].end
          /\ \/ pc'[p] # "idle"
             \/ /\ Len(log'[i]) = Len(log[i]) + 1
                /\ log'[i][Len(log'[i])].proc = p )
        => /\ pc'[p] = "idle"
           /\ cursor' = cursor /\ txn' = txn /\ ops' = ops /\ batches' = batches
           /\ log'[i][Len(log'[i])].ops = <<>>
           /\ log'[i][Len(log'[i])].path = "fast"

C7_FastPathNoIO == [][C7_FastStep]_vars

(* A call took the fast path of an instance another caller had refilled.   *)
C7_Witness ==
    \E x, y \in AllRecs :
        /\ x[1] = y[1] /\ x[2] < y[2]
        /\ Rec(x).path = "refill" /\ Rec(x).ok
        /\ Rec(y).path = "fast" /\ Rec(y).ok

(* C8. Exhaustion: no returned ObjectId has one of its OID_FMT_INTR_BITS   *)
(* most-significant bits set, the id returned is the value the range       *)
(* pointed at, and when that value has such a bit set allocate() returns   *)
(* the exhaustion error instead.                                           *)
C8_Exhaustion ==
    \A x \in AllRecs :
        LET r == Rec(x) IN
        /\ r.ok => /\ OidValue(r) = r.from
                   /\ OidValue(r) < Threshold
        /\ r.cause \notin ClaimFailures =>
              (r.from >= Threshold <=> ~r.ok /\ r.cause = "exhausted")

(* The last id below the reserved bits was returned, and a later call got  *)
(* the exhaustion error.                                                   *)
C8_Witness ==
    \E x, y \in AllRecs :
        /\ Rec(x).ok /\ OidValue(Rec(x)) = Threshold - 1
        /\ ~Rec(y).ok /\ Rec(y).cause = "exhausted"

(* C9. The exhaustion error has a kind that no other failure of allocate() *)
(* has.                                                                    *)
C9_ExhaustionKindDistinct ==
    \A x, y \in AllRecs :
        (Rec(x).cause = "exhausted" /\ Rec(y).cause \in ClaimFailures)
            => Rec(x).kind # Rec(y).kind

(* C10. A step of a caller inside the batch claim never changes the range  *)
(* of its instance; when the claim fails at its open, fetch, update or     *)
(* commit, allocate() returns an error and no ObjectId.                    *)
C10_FailedClaimStep ==
    \A p \in Procs :
        LET i == InstOf(p) IN
        (pc[p] \in ClaimPcs /\ pc'[p] # pc[p]) =>
            /\ range' = range
            /\ pc'[p] = "idle" =>
                  /\ Len(log'[i]) = Len(log[i]) + 1
                  /\ LET r == log'[i][Len(log'[i])] IN
                        /\ r.proc = p /\ ~r.ok
                        /\ r.cause \in ClaimFailures
                        /\ r.hi = 0 /\ r.lo = 0
            /\ pc'[p] = "install" => Len(batches') = Len(batches) + 1

C10_FailedClaimKeepsRange == [][C10_FailedClaimStep]_vars

(* A claim failed at its commit on an instance that holds a range another  *)
(* caller installed.                                                       *)
C10_Witness ==
    \E x \in AllRecs :
        /\ Rec(x).cause = "commit"
        /\ range[x[1]].start < range[x[1]].end

(* C11. When the commit of a batch claim fails, allocate() returns that     *)
(* failure in the same step: the call issues nothing after the commit, no  *)
(* transaction is touched, no batch is returned and the persisted cursor   *)
(* is left as it is; a claim leaves its commit only by returning or by     *)
(* installing the committed batch.                                         *)
C11_CommitStep ==
    \A p \in Procs :
        LET i == InstOf(p) IN
        (pc[p] = "commit" /\ pc'[p] # "commit") =>
            /\ pc'[p] \in {"idle", "install"}
            /\ pc'[p] = "install" => Len(batches') = Len(batches) + 1
            /\ pc'[p] = "idle" =>
                  /\ cursor' = cursor /\ txn' = txn /\ batches' = batches
                  /\ Len(log'[i]) = Len(log[i]) + 1
                  /\ LET r == log'[i][Len(log'[i])] IN
                        /\ r.proc = p /\ ~r.ok /\ r.cause = "commit"
                        /\ r.kind = NativeFailureKind
                        /\ r.ops = Append(ops[p], "commit")
                        /\ Cardinality({k \in 1..Len(r.ops) : r.ops[k] = "commit"}) = 1

C11_CommitFailureNotRetried == [][C11_CommitStep]_vars

(* A commit was refused because another claim had advanced the cursor, and *)
(* the call returned the failure.                                          *)
C11_Witness ==
    /\ faults = 0
    /\ Len(batches) >= 2
    /\ \E x \in AllRecs : Rec(x).cause = "commit" /\ Rec(x).first = "ok"

(* C12. The ObjectIds one instance returns are strictly increasing in the  *)
(* order in which its allocate() calls return.                             *)
C12_MonotonicPerInstance ==
    \A i \in Insts :
        \A k, m \in 1..Len(log[i]) :
            (k < m /\ log[i][k].ok /\ log[i][m].ok)
                => OidValue(log[i][k]) < OidValue(log[i][m])

(* C13. Whenever a call is not inside allocate_oid_batch(), every          *)
(* transaction its batch claim opened has been committed or aborted.       *)
C13_NoTxnLeak ==
    \A p \in Procs :
        pc[p] \in {"idle", "install"} =>
            \A k \in 1..Len(txn[p]) : txn[p][k].st \in {"committed", "aborted"}

(* The native operation of an event has completed: its completion callback *)
(* was due.                                                                *)
Completed(r) == r.nat = "completed" \/ r.finion = "completed"

(* What a run of the teardown does when nothing fails.                     *)
TeardownOrder == <<"send", "join", "destroy">>

(* The runs of the teardown that called daos_eq_destroy.                   *)
DestroyRuns ==
    { k \in 1..Len(queue.trace) :
        \E j \in 1..Len(queue.trace[k]) : queue.trace[k][j] \in {"destroy", "destroy_err"} }

(* C14. Exactly-once delivery: the continuation of an event is consumed    *)
(* once when its native operation completes and never otherwise; a         *)
(* receiver that is still awaited then holds one value, the result code    *)
(* the callback of its own event was called with.                          *)
C14_ExactlyOnce ==
    \A e \in Events :
        LET r == events[e] IN
        /\ r.fired <= 1
        /\ Completed(r) => r.fired = 1 /\ r.arg = "consumed"
        /\ ~Completed(r) => r.fired = 0 /\ r.arg # "consumed"
        /\ r.rx \in {"value", "taken"} => Completed(r) /\ r.val = r.code
        /\ (Completed(r) /\ r.tpc = "await") => r.rx = "value"
        /\ r.rx = "taken" => r.ret = IF r.code = 0 THEN "Ok" ELSE NativeRetKind(OpOf(e))

(* Two operations completed with different result codes and each receiver  *)
(* got a value.                                                            *)
C14_Witness ==
    \E e, f \in Events :
        /\ events[e].rx \in {"value", "taken"} /\ events[f].rx \in {"value", "taken"}
        /\ events[e].code # events[f].code

(* C15. Cancellation safety: after a receiver was dropped before its       *)
(* operation completed, the process does not crash, and an operation that  *)
(* completes while it is awaited gets its value.                           *)
C15_CancellationSafe ==
    (\E e \in Events : events[e].early) =>
        /\ ~queue.crashed
        /\ \A f \in Events :
              (Completed(events[f]) /\ events[f].tpc = "await") => events[f].rx = "value"

(* C16. For every asynchronous operation, a receiver whose sender was      *)
(* dropped without a result makes the operation return a connection-reset  *)
(* error, of a kind that differs from the kind returned for a nonzero      *)
(* native result code.                                                     *)
C16_CancelKindDistinct ==
    (awaited.out \notin {"idle", "pending", "awaiting"} /\ awaited.call = 0 /\ awaited.closed)
        => /\ awaited.out = "ConnectionReset"
           /\ awaited.out # NativeRetKind(awaited.op)

(* C17. daos_event_fini is called at most once per event, only after       *)
(* daos_event_test succeeded and reported that the event had left the      *)
(* queue, and never on an event that is still enqueued.                    *)
C17_FiniOnlyAfterTest ==
    \A e \in Events :
        LET r == events[e] IN
        /\ r.finis <= 1
        /\ r.finis = 1 => r.tested = "left" /\ r.finion # "running"
        /\ r.tested \in {"fail", "enqueued"} => r.finis = 0

(* One event was dropped while enqueued and not finalized, another was     *)
(* finalized after its operation had completed.                            *)
C17_Witness ==
    \E e, f \in Events :
        /\ events[e].tested = "enqueued" /\ events[e].finis = 0
        /\ events[f].finis = 1 /\ events[f].finion = "completed"

(* C18. The memory of an event's daos_event_t is not released while the    *)
(* native operation issued with it is in flight.                           *)
C18_HandleOutlivesOperation ==
    \A e \in Events : ~(events[e].nat = "running" /\ events[e].mem = "freed")

(* C19. Teardown order: a run of the teardown sends the shutdown signal,   *)
(* then joins the poller thread, then destroys the native queue; the       *)
(* destroy is reached only when the poller thread has ended, and the       *)
(* poller never polls a destroyed queue.                                   *)
C19_TeardownOrder ==
    /\ ~queue.polledDead
    /\ queue.tpc = "destroy" => queue.poller = "exited"
    /\ queue.native = "destroyed" => queue.poller = "exited"
    /\ \A k \in 1..Len(queue.trace) :
          LET t == queue.trace[k] IN
          \/ t \in {<<>>, <<"send_err">>, <<"send", "join", "destroy_err">>}
          \/ /\ Len(t) <= Len(TeardownOrder)
             /\ \A j \in 1..Len(t) : t[j] = TeardownOrder[j]

(* The queue was destroyed by a full run after its poller had completed an *)
(* operation.                                                              *)
C19_Witness ==
    /\ queue.native = "destroyed"
    /\ queue.trace[1] = TeardownOrder
    /\ \E e \in Events : Completed(events[e])

(* C20. Teardown is idempotent: a run after the handle was released does   *)
(* nothing; a run after a failed destroy sends nothing that is received,   *)
(* joins nothing and destroys nothing; no run panics, and                  *)
(* daos_eq_destroy is called in at most one run.                           *)
C20_TeardownIdempotent ==
    /\ ~queue.panicked
    /\ Cardinality(DestroyRuns) <= 1
    /\ \A k \in 2..Len(queue.trace) :
          /\ queue.trace[k] \in {<<>>, <<"send_err">>}
          /\ (\E j \in 1..(k - 1) : queue.trace[j] = TeardownOrder) => queue.trace[k] = <<>>

(* The teardown ran again after the handle was released.                   *)
C20_Witness ==
    /\ queue.handle = "none"
    /\ queue.native = "destroyed"
    /\ Len(queue.trace) >= 2
    /\ queue.trace[1] = TeardownOrder
    /\ queue.trace[2] = <<>>

C22_PollerOnlyForLiveQueue ==
    /\ queue.poller \in {"check", "poll"} => queue.built /\ queue.native = "created"
    /\ ~queue.polledDead

(* C23. Poller shutdown liveness: a teardown that has sent the shutdown    *)
(* signal and waits in join eventually returns with the poller thread      *)
(* ended, provided every daos_eq_poll returns.                             *)
C23_ShutdownLiveness ==
    (queue.tpc = "join") ~> (queue.poller = "exited" /\ queue.tpc = "idle")

(* A teardown went through its join and returned while an operation was    *)
(* still in flight.                                                        *)
C23_Witness ==
    /\ queue.tpc = "idle"
    /\ queue.poller = "exited"
    /\ Len(queue.trace) = 1 /\ Len(queue.trace[1]) = 3
    /\ \E e \in Events : events[e].nat = "running"

(* C24. A negative return of daos_eq_poll does not stop the poller: the    *)
(* poller thread ends only when a shutdown signal was sent, and an         *)
(* operation that completes after a failed poll has its result code        *)
(* delivered to the receiver that awaits it.                               *)
C24_PollFailureNotFatal ==
    /\ queue.pollerr => queue.poller # "none"
    /\ queue.poller = "exited" =>
          \E k \in 1..Len(queue.trace) :
              Len(queue.trace[k]) >= 1 /\ queue.trace[k][1] = "send"
    /\ \A e \in Events :
          (events[e].late /\ events[e].tpc = "await")
              => events[e].rx = "value" /\ events[e].val = events[e].code

(* A poll failed, the poller went on, and an operation that completed      *)
(* later delivered a nonzero result code.                                  *)
C24_Witness ==
    /\ queue.pollerr
    /\ queue.poller # "exited"
    /\ \E e \in Events :
          events[e].late /\ events[e].rx = "value" /\ events[e].val # 0

(* C25. The CallbackArg handed to the native layer is reclaimed exactly     *)
(* once on every path: it is never taken back twice, and once the          *)
(* operation has returned and nothing is in flight it is not left behind   *)
(* its raw pointer.                                                        *)
C25_ArgReclaimedOnce ==
    \A e \in Events :
        LET r == events[e] IN
        /\ r.fired <= 1
        /\ (r.tpc = "done" /\ r.nat # "running") => r.arg \in {"none", "consumed"}

(* C27. The range lock is never held during batch-claim I/O: a call that   *)
(* has a transaction open, fetch, insert, update or commit in progress     *)
(* has dropped its guard, so the lock of its instance can be acquired.     *)
C27_NoLockDuringIO ==
    \A p \in Procs :
        pc[p] \in ClaimPcs => loc[p].guard = "dropped" /\ CanLock(InstOf(p))

(* While a call was inside its batch claim, another caller of the same     *)
(* instance took the lock and returned an id on the fast path.             *)
C27_Witness ==
    \E p, q \in Procs :
        LET i == InstOf(p) IN
        /\ p # q /\ InstOf(q) = i
        /\ pc[p] \in ClaimPcs /\ pc[q] = "idle"
        /\ Len(log[i]) >= 2
        /\ log[i][Len(log[i])].proc = q
        /\ log[i][Len(log[i])].path = "fast"

(* C26. The synchronous and the asynchronous allocator implement the same  *)
(* algorithm: from the same range and cursor and with the same native      *)
(* failures, their allocate() calls issue the same storage calls, return   *)
(* the same result and leave the same range and the same cursor.           *)
C26_SyncAsyncEquivalent ==
    (twin.async.done /\ twin.sync.done) => twin.async = twin.sync

(* Both variants ran on a cursor that existed although the first fetch     *)
(* failed: insert refused, second transaction, second fetch, update,       *)
(* commit, and an id returned.                                             *)
C26_Witness ==
    /\ twin.async.done /\ twin.sync.done
    /\ twin.sync.ok
    /\ twin.sync.ops = <<"open", "fetch", "insert", "open", "fetch", "update", "commit">>
    /\ twin.sync.cursor # twin.cursor

(* C28. daos_init is executed exactly once per process, however many       *)
(* DaosPool values are created and from however many threads.              *)
C28_InitOnce ==
    /\ once.inits <= 1
    /\ (\E m \in Modules : once.pools[m] > 0) => once.inits = 1

(* C29. connect is idempotent: on a DaosPool or DaosContainer that holds a *)
(* handle it returns Ok, makes no native open call and leaves the handle   *)
(* as it is.                                                               *)
C29_ConnectIdempotent ==
    \A o \in {conn.pool, conn.cont} :
        (o.last.op = "connect" /\ o.last.had # 0)
            => o.last.ret = "Ok" /\ ~o.last.native /\ o.handle = o.last.had

(* Both the pool and the container were connected and then connected       *)
(* again.                                                                  *)
C29_Witness ==
    /\ conn.pool.last = Call("connect", 1, "Ok", FALSE)
    /\ conn.cont.last = Call("connect", 1, "Ok", FALSE)
    /\ conn.pool.opens = 1 /\ conn.cont.opens = 1

(* C30. disconnect on a DaosPool or DaosContainer that holds no handle     *)
(* returns Ok, makes no native close call and leaves the handle absent.    *)
C30_DisconnectNoHandle ==
    \A o \in {conn.pool, conn.cont} :
        (o.last.op = "disconnect" /\ o.last.had = 0)
            => o.last.ret = "Ok" /\ ~o.last.native /\ o.handle = 0

(* The pool was connected, disconnected and disconnected again; the        *)
(* container was disconnected without ever being connected.                *)
C30_Witness ==
    /\ conn.pool.last = Call("disconnect", 0, "Ok", FALSE)
    /\ conn.pool.opens = 1 /\ conn.pool.closes = 1
    /\ conn.cont.last = Call("disconnect", 0, "Ok", FALSE)
    /\ conn.cont.opens = 0 /\ conn.cont.closes = 0

(* C31. Registration precedes issue: in every asynchronous operation the   *)
(* native call that uses the event is made after exactly one callback was  *)
(* registered on the event, and no event ever has more than one callback   *)
(* registered.                                                             *)
C31_RegisterBeforeIssue ==
    LET regs(k) == Cardinality({j \in 1..k : issue.done[j] = "register"}) IN
    /\ \A k \in 1..Len(issue.done) :
          issue.done[k] = "native" => regs(k - 1) = 1
    /\ regs(Len(issue.done)) <= 1
    /\ issue.cbs = regs(Len(issue.done))
    /\ issue.out = "Ok" => issue.cbs = 1

(* punch_async created its event, registered its callback, issued          *)
(* daos_obj_punch and was resumed with code 0.                             *)
C31_Witness ==
    /\ issue.op = "obj_punch"
    /\ issue.out = "Ok"
    /\ issue.done = <<"event_init", "register", "native", "await">>

(* The storage calls of one allocate() call, so far or in all, are the     *)
(* beginning of one batch claim; every call that was entered is in         *)
(* progress or has returned one result, and a call that took the fast path *)
(* issued nothing.                                                         *)
C32_Bounded ==
    /\ \A p \in Procs :
          /\ IsPrefix(ops[p], ClaimDirect) \/ IsPrefix(ops[p], ClaimBootstrap)
          /\ pc[p] = "idle" => ops[p] = <<>>
    /\ \A x \in AllRecs :
          /\ IsPrefix(Rec(x).ops, ClaimDirect) \/ IsPrefix(Rec(x).ops, ClaimBootstrap)
          /\ Rec(x).path = "fast" => Rec(x).ops = <<>>
    /\ Cardinality(AllRecs) + Cardinality({p \in Procs : pc[p] # "idle"}) = ncalls

(* C32. Bounded protocol: one allocate() call performs at most one batch   *)
(* claim, which opens at most two transactions and issues at most two      *)
(* fetches, one insert, one update and one commit, whatever the outcomes   *)
(* and whatever other callers do; and when every storage call returns,     *)
(* every allocate() call returns.                                          *)
C32_BoundedProtocol ==
    /\ []C32_Bounded
    /\ \A p \in RefillProcs : (pc[p] # "idle") ~> (pc[p] = "idle")

(* A call lost the bootstrap, issued all seven storage calls and returned  *)
(* an id while another caller was inside its own claim.                    *)
C32_Witness ==
    \E x \in AllRecs :
        /\ Rec(x).ok
        /\ Rec(x).ops = ClaimBootstrap
        /\ \E q \in Procs : q # Rec(x).proc /\ pc[q] \in ClaimPcs

(* C33. Whenever the conditional insert of a batch claim failed after its  *)
(* first fetch failed, the second fetch, in the fresh transaction, finds   *)
(* the cursor key present: a call that stands before its second fetch has  *)
(* a cursor to read, and no call returns the failure of a second fetch     *)
(* that found no key.                                                      *)
C33_SecondFetchFinds ==
    /\ \A p \in Procs : pc[p] = "refetch" => cursor.present
    /\ \A x \in AllRecs :
          (Rec(x).ins \in {"exists", "fault"} /\ Rec(x).cause = "fetch") => cursor.present

(* C34. A batch claim returns the initial range [INITIAL, INITIAL + BATCH) *)
(* only when its own conditional insert, of the value INITIAL + BATCH,     *)
(* succeeded; the insert is attempted only after the first fetch of that   *)
(* claim failed; and at most one batch claim of a container returns the    *)
(* initial range.                                                          *)
C34_InitialRangeOnce ==
    /\ \A k \in 1..Len(batches) :
          LET b == batches[k] IN
          /\ (b.start = params.start \/ b.via = "insert") =>
                /\ b.via = "insert"
                /\ b.start = params.start /\ b.end = params.start + params.batch
                /\ cursor.present /\ CursorValue(cursor) >= params.start + params.batch
                /\ \A m \in 1..Len(batches) : batches[m].start = b.start => m = k
          /\ (b.via = "insert" /\ Len(batches) = 1) =>
                CursorValue(cursor) = params.start + params.batch
    /\ \A p \in Procs :
          /\ loc[p].new_range = InitialRange => loc[p].ins = "ok"
          /\ loc[p].ins # "none" =>
                /\ loc[p].first \in {"absent", "fault"}
                /\ Len(ops[p]) >= 3 /\ ops[p][2] = "fetch" /\ ops[p][3] = "insert"
          /\ \A k \in 1..Len(ops[p]) : ops[p][k] = "insert" => k = 3 /\ loc[p].ins # "none"
    /\ \A x \in AllRecs :
          LET r == Rec(x) IN
          /\ r.claimed = InitialRange => r.ins = "ok"
          /\ \A k \in 1..Len(r.ops) :
                r.ops[k] = "insert" =>
                    k = 3 /\ r.ops[2] = "fetch" /\ r.first \in {"absent", "fault"}

(* One claim won the bootstrap and returned the initial range; another     *)
(* claim, whose first fetch had failed too, lost it and returned the next  *)
(* batch.                                                                  *)
C34_Witness ==
    /\ \E k \in 1..Len(batches) : batches[k].via = "insert"
    /\ \E x \in AllRecs :
          /\ Rec(x).ok /\ Rec(x).ins = "exists" /\ Rec(x).first = "absent"
          /\ Rec(x).claimed.start = params.start + params.batch

(* C35. In every batch claim that advances an existing cursor, the update  *)
(* to C + BATCH and the commit are issued on the transaction of the fetch  *)
(* that returned C: the transaction a call has written or committed is the *)
(* last one it opened, it has fetched the cursor and is not dropped, and   *)
(* it writes C + BATCH; on the retry path the abandoned transaction has    *)
(* read nothing, written nothing and is not committed.                     *)
C35_SameTransaction ==
    \A p \in Procs :
        \A k \in 1..Len(txn[p]) :
            LET t == txn[p][k] IN
            /\ (t.wr # <<>> \/ t.st = "committed") =>
                  /\ k = Len(txn[p])
                  /\ t.rver # -1
                  /\ t.held
                  /\ pc[p] \in {"commit", "install"} =>
                        t.wr = to_le_bytes(BatchEnd(loc[p].range_start))
            /\ pc[p] = "commit" => txn[p][Len(txn[p])].wr # <<>>
            /\ k < Len(txn[p]) =>
                  /\ Len(txn[p]) = 2
                  /\ t.wr = <<>> /\ t.st = "open" /\ t.rver = -1 /\ ~t.held

(* A call that lost the bootstrap has committed its fresh transaction and  *)
(* claimed the batch after the initial one.                                *)
C35_Witness ==
    \E p \in Procs :
        /\ pc[p] = "install"
        /\ Len(txn[p]) = 2
        /\ txn[p][2].st = "committed"
        /\ loc[p].new_range.start = params.start + params.batch

(* C36. Range invariant: the range of every instance has start <= end, and *)
(* no value in [start, end) was returned by an allocate() call of any      *)
(* instance.                                                               *)
C36_RangeInvariant ==
    \A i \in Insts :
        /\ range[i].start <= range[i].end
        /\ \A x \in AllRecs :
              Rec(x).ok => ~(range[i].start <= OidValue(Rec(x)) /\ OidValue(Rec(x)) < range[i].end)

(* An instance holds unissued ids of a batch it has issued ids from, and   *)
(* another instance has issued ids of another batch.                       *)
C36_Witness ==
    \E i, j \in Insts :
        /\ i # j
        /\ range[i].start < range[i].end
        /\ \E k \in 1..Len(log[i]) :
              log[i][k].ok /\ OidValue(log[i][k]) = range[i].start - 1
        /\ \E k \in 1..Len(log[j]) : log[j][k].ok

(* A call installs the range it claimed: the range it replaces holds no    *)
(* unissued id.                                                            *)
C37_InstallStep ==
    \A p \in Procs :
        (pc[p] = "install" /\ pc'[p] = "idle") =>
            range[InstOf(p)].start >= range[InstOf(p)].end

(* C37. A refill never discards unissued identifiers of its instance:      *)
(* whenever allocate() installs a newly claimed range, the range being     *)
(* replaced is exhausted (start >= end), for every interleaving of the     *)
(* calls on that instance.                                                 *)
C37_RefillKeepsUnissued == [][C37_InstallStep]_vars

(* An allocate() call of instance i has returned the exhaustion error.     *)
Exhausted(i) == \E k \in 1..Len(log[i]) : log[i][k].cause = "exhausted"

(* A call that enters allocate() on an instance that has returned the      *)
(* exhaustion error returns it again at once, and changes neither the      *)
(* range nor the cursor.                                                   *)
C38_EnterStep ==
    \A p \in Procs :
        LET i == InstOf(p) IN
        (pc[p] = "idle" /\ ncalls' = ncalls + 1 /\ Exhausted(i)
            /\ (pc'[p] # "idle" \/ (Len(log'[i]) = Len(log[i]) + 1
                                      /\ log'[i][Len(log'[i])].proc = p))) =>
            /\ pc'[p] = "idle"
            /\ log'[i][Len(log'[i])].cause = "exhausted"
            /\ log'[i][Len(log'[i])].ops = <<>>
            /\ range' = range
            /\ cursor' = cursor

(* C38. Exhaustion is sticky per instance: once an allocate() call of an   *)
(* instance has returned the exhaustion error, every later allocate() call *)
(* of that instance returns it too, issues no storage call and leaves the  *)
(* range and the cursor as they are.                                       *)
C38_ExhaustionSticky == [][C38_EnterStep]_vars

(* C39. No orphan poller: when DaosEventQueue::new has returned an error   *)
(* because daos_eq_create failed, so that the sender of the shutdown       *)
(* channel was dropped with no signal sent, the poller thread it spawned   *)
(* eventually ends.                                                        *)
C39_NoOrphanPoller ==
    (~queue.built /\ queue.poller \in {"check", "poll"}) ~> (queue.poller = "exited")

(* C40. No awaiting task hangs forever: the task awaiting an operation     *)
(* whose native call was issued successfully is eventually resumed with a  *)
(* result code or a receive error, also when the queue of its event is     *)
(* dropped while the operation is in flight.                               *)
C40_NoTaskHangs ==
    \A e \in Events : (events[e].tpc = "await") ~> (events[e].tpc = "done")

====
